---- MODULE Spec2Model ----
(***************************************************************************)
(* ChainChat conversation service (src/chainchat/chat.py, class            *)
(* ChatService): document ingestion, vector-store rebuild with embedding   *)
(* fallback, per-session memory and the direct/RAG mode selection of ask.  *)
(*                                                                         *)
(* Text is modelled at character level: a Python str is a sequence of      *)
(* one-character strings, so that substring tests, lower(), strip() and    *)
(* the text splitter are computed and not assumed.  Hebrew letters are     *)
(* written by their names ("he", "qof", ...).                              *)
(***************************************************************************)
EXTENDS Integers, Sequences, FiniteSets, TLC

VARIABLES
    documents,         \* self.documents: list of chunk Documents
    vector_store,      \* self.vector_store: None or a FAISS index
    document_sources,  \* self.document_sources: digest -> metadata
    sessions,          \* self.sessions: session id -> session record
    embeddings,        \* self.embeddings: the model name of the embeddings object
    embedding_type,    \* self.embedding_type: "openai" | "local"
    uuid_next,         \* number of ids uuid.uuid4() has produced so far
    call,              \* the public operation that ran last, with the embedding calls of an add
    result,            \* the value it returned
    requests,          \* the upload requests in flight: where each handler stands
    running            \* the request whose handler holds the event loop, or "idle"

vars == <<documents, vector_store, document_sources, sessions,
          embeddings, embedding_type, uuid_next, call, result, requests, running>>

(***************************************************************************)
(* Python values and str operations                                        *)
(***************************************************************************)

\* Python's None
None == [kind |-> "None"]

Min(a, b) == IF a <= b THEN a ELSE b

\* s[i:] and s[:n] of a Python sequence (1-based positions here)
Drop(s, n) == SubSeq(s, n + 1, Len(s))

Take(s, n) == SubSeq(s, 1, Min(n, Len(s)))

\* str.startswith
StartsWith(s, p) == Len(p) <= Len(s) /\ SubSeq(s, 1, Len(p)) = p

\* `p in s` for two str values: p occurs as a substring of s
Contains(s, p) == \E i \in 0..(Len(s) - Len(p)) : SubSeq(s, i + 1, i + Len(p)) = p

\* str.find: the first 0-based position of p in s, or -1
Find(s, p) ==
    IF Contains(s, p)
    THEN CHOOSE i \in 0..(Len(s) - Len(p)) :
            /\ SubSeq(s, i + 1, i + Len(p)) = p
            /\ \A j \in 0..(i - 1) : SubSeq(s, j + 1, j + Len(p)) # p
    ELSE -1

UpperToLower ==
    [c \in {"A", "B", "C", "D", "E", "F", "G", "H", "I", "J", "K", "L", "M",
            "N", "O", "P", "Q", "R", "S", "T", "U", "V", "W", "X", "Y", "Z"} |->
        CASE c = "A" -> "a" [] c = "B" -> "b" [] c = "C" -> "c" [] c = "D" -> "d"
          [] c = "E" -> "e" [] c = "F" -> "f" [] c = "G" -> "g" [] c = "H" -> "h"
          [] c = "I" -> "i" [] c = "J" -> "j" [] c = "K" -> "k" [] c = "L" -> "l"
          [] c = "M" -> "m" [] c = "N" -> "n" [] c = "O" -> "o" [] c = "P" -> "p"
          [] c = "Q" -> "q" [] c = "R" -> "r" [] c = "S" -> "s" [] c = "T" -> "t"
          [] c = "U" -> "u" [] c = "V" -> "v" [] c = "W" -> "w" [] c = "X" -> "x"
          [] c = "Y" -> "y" [] c = "Z" -> "z"]

\* str.lower
Lower(s) == [i \in 1..Len(s) |-> IF s[i] \in DOMAIN UpperToLower THEN UpperToLower[s[i]] ELSE s[i]]

WhitespaceChars == {" ", "\n", "\t"}

RECURSIVE LStrip(_)
LStrip(s) == IF s # <<>> /\ s[1] \in WhitespaceChars THEN LStrip(Tail(s)) ELSE s

RECURSIVE RStrip(_)
RStrip(s) ==
    IF s # <<>> /\ s[Len(s)] \in WhitespaceChars THEN RStrip(SubSeq(s, 1, Len(s) - 1)) ELSE s

\* str.strip
Strip(s) == RStrip(LStrip(s))

\* str.split() without arguments: the maximal runs of non-whitespace characters
RECURSIVE SplitWords(_)
SplitWords(s) ==
    LET t == LStrip(s) IN
    IF t = <<>> THEN <<>>
    ELSE LET n == CHOOSE k \in 1..Len(t) :
                    /\ \A j \in 1..k : t[j] \notin WhitespaceChars
                    /\ (k = Len(t) \/ t[k + 1] \in WhitespaceChars)
         IN <<SubSeq(t, 1, n)>> \o SplitWords(Drop(t, n))

\* "".join(parts)
RECURSIVE Join(_)
Join(parts) == IF parts = <<>> THEN <<>> ELSE Head(parts) \o Join(Tail(parts))

\* [x for x in s if x != ""]
RECURSIVE NonEmpty(_)
NonEmpty(s) ==
    IF s = <<>> THEN <<>>
    ELSE (IF Head(s) = <<>> THEN <<>> ELSE <<Head(s)>>) \o NonEmpty(Tail(s))

(***************************************************************************)
(* The text splitter: RecursiveCharacterTextSplitter(chunk_size,           *)
(* chunk_overlap, separators), with the library's defaults                 *)
(* keep_separator = True, strip_whitespace = True, length_function = len.  *)
(***************************************************************************)

\* settings.chunk_size and settings.chunk_overlap (1000 and 200 by default, taken
\* from the environment); scaled down here so that short texts split.
chunk_size == 4

chunk_overlap == 1

\* separators=["\n\n", "\n", ". ", " ", ""]
separators == << <<"\n", "\n">>, <<"\n">>, <<".", " ">>, <<" ">>, <<>> >>

\* re.split(separator, text): the pieces between the occurrences of a non-empty separator
RECURSIVE ReSplit(_, _)
ReSplit(text, sep) ==
    LET i == Find(text, sep) IN
    IF i = -1 THEN <<text>>
    ELSE <<SubSeq(text, 1, i)>> \o ReSplit(Drop(text, i + Len(sep)), sep)

\* _split_text_with_regex with keep_separator: each separator stays at the head of
\* the piece that follows it; the empty separator splits into characters
SplitWithSeparator(text, sep) ==
    IF sep = <<>>
    THEN NonEmpty([i \in 1..Len(text) |-> <<text[i]>>])
    ELSE LET pieces == ReSplit(text, sep) IN
         NonEmpty([i \in 1..Len(pieces) |-> IF i = 1 THEN pieces[1] ELSE sep \o pieces[i]])

\* a join that keeps the whitespace around the joined text
JoinDocs_NoStrip(docs) == LET text == Join(docs) IN IF text = <<>> THEN <<>> ELSE <<text>>

\* _join_docs: the joined, stripped text, as a list of zero or one chunk
JoinDocs(docs) == LET text == Strip(Join(docs)) IN IF text = <<>> THEN <<>> ELSE <<text>>

RECURSIVE SeqLenSum(_)
SeqLenSum(parts) == IF parts = <<>> THEN 0 ELSE Len(Head(parts)) + SeqLenSum(Tail(parts))

\* the inner while loop of _merge_splits: drop pieces from the front of current_doc
RECURSIVE PopFront(_, _)
PopFront(current_doc, len) ==
    LET total == SeqLenSum(current_doc) IN
    IF total > chunk_overlap \/ (total + len > chunk_size /\ total > 0)
    THEN PopFront(Tail(current_doc), len)
    ELSE current_doc

\* _merge_splits with the empty join separator: st = [docs, current_doc]
RECURSIVE MergeLoop(_, _)
MergeLoop(splits, st) ==
    IF splits = <<>> THEN st.docs \o JoinDocs(st.current_doc)
    ELSE LET d == Head(splits)
             total == SeqLenSum(st.current_doc)
             flush == total + Len(d) > chunk_size /\ st.current_doc # <<>>
             docs1 == IF flush THEN st.docs \o JoinDocs(st.current_doc) ELSE st.docs
             cur1 == IF flush THEN PopFront(st.current_doc, Len(d)) ELSE st.current_doc
         IN MergeLoop(Tail(splits), [docs |-> docs1, current_doc |-> Append(cur1, d)])

MergeSplits(splits) == MergeLoop(splits, [docs |-> <<>>, current_doc |-> <<>>])

\* the separator _split_text chooses: the first one that occurs in the text, the
\* empty one when none does
ChooseSeparator(text, seps) ==
    LET hits == {i \in 1..Len(seps) : seps[i] = <<>> \/ Contains(text, seps[i])} IN
    IF hits = {} THEN Len(seps) ELSE CHOOSE i \in hits : \A j \in hits : i <= j

\* RecursiveCharacterTextSplitter._split_text
RECURSIVE SplitTextRec(_, _)
RECURSIVE SplitLoop(_, _, _, _)
SplitLoop(splits, new_separators, good, final) ==
    IF splits = <<>>
    THEN IF good # <<>> THEN final \o MergeSplits(good) ELSE final
    ELSE LET s == Head(splits) IN
         IF Len(s) < chunk_size
         THEN SplitLoop(Tail(splits), new_separators, Append(good, s), final)
         ELSE LET flushed == IF good # <<>> THEN final \o MergeSplits(good) ELSE final
                  more == IF new_separators = <<>> THEN <<s>>
                          ELSE SplitTextRec(s, new_separators)
              IN SplitLoop(Tail(splits), new_separators, <<>>, flushed \o more)

SplitTextRec(text, seps) ==
    LET i == ChooseSeparator(text, seps)
        separator == seps[i]
        new_separators == IF separator = <<>> THEN <<>> ELSE Drop(seps, i)
    IN SplitLoop(SplitWithSeparator(text, separator), new_separators, <<>>, <<>>)

\* document texts: "", "ab", "ab cd"
T_empty == <<>>

T_ab == <<"a", "b">>

T_ab_cd == <<"a", "b", " ", "c", "d">>

Texts == {T_empty, T_ab, T_ab_cd}

\* the chunks of the texts above, computed once
SplitTexts == [t \in Texts |-> SplitTextRec(t, separators)]

\* self.text_splitter.split_text(text)
split_text(text) == IF text \in Texts THEN SplitTexts[text] ELSE SplitTextRec(text, separators)

(***************************************************************************)
(* Inputs and the outcomes of the external calls                           *)
(***************************************************************************)

\* how many documents, sessions and turns a run may hold
MaxDocs == 2

MaxUuids == 2

MaxTurns == 2

\* an external call (embedding request, model load, LLM request) returns or raises
\* an exception whose str() is `error`
Ok == [ok |-> TRUE, error |-> <<>>]

Fail(e) == [ok |-> FALSE, error |-> e]

\* exception texts: "Quota", "429", "insufficient_quota", "timeout"
E_Quota == <<"Q", "u", "o", "t", "a">>

E_429 == <<"4", "2", "9">>

E_insufficient_quota ==
    <<"i", "n", "s", "u", "f", "f", "i", "c", "i", "e", "n", "t", "_", "q", "u", "o", "t", "a">>

E_timeout == <<"t", "i", "m", "e", "o", "u", "t">>

ErrorTexts == {E_Quota, E_429, E_insufficient_quota, E_timeout}

\* the exception texts index builds fail with in Spec
BuildErrors == {E_429, E_timeout}

Outcomes(errors) == {Ok} \cup {Fail(e) : e \in errors}

Filenames == {"a.txt"}

\* hashlib.md5(text.encode()).hexdigest(), leading 8 hex digits
Md5(text) ==
    CASE text = <<>> -> "d41d8cd9"
      [] text = <<" ">> -> "7215ee9c"
      [] text = <<"a", "b">> -> "187ef443"
      [] text = <<"a", "b", " ", "c", "d">> -> "04a7d98b"
      [] text = <<"a", "b", " ", "c", "d", " ", "e", "f">> -> "66f4ca58"
      [] text = <<"a", "\n", "\n", "b">> -> "f3085ccc"

\* the embedding models of __init__ and _rebuild_vector_store
OpenAIModel == "text-embedding-3-small"

MultilingualModel == "paraphrase-multilingual-MiniLM-L12-v2"

BasicModel == "all-MiniLM-L6-v2"

\* a message: an f-string with the text put in its placeholder, or a plain string
Fmt(template, value) == [template |-> template, value |-> value]

Plain(text) == [template |-> text, value |-> <<>>]

\* str(n) of a natural number
RECURSIVE IntStr(_)
IntStr(n) == IF n < 10 THEN <<ToString(n)>> ELSE IntStr(n \div 10) \o <<ToString(n % 10)>>

(***************************************************************************)
(* ChatService.__init__                                                    *)
(***************************************************************************)

\* the upload requests the transport handles at the same time
Requests == {"r1", "r2", "r3"}

\* a request that has not arrived yet
NewRequest == [pc |-> "new", text |-> <<>>, response |-> None, overlaps |-> FALSE]

\* OpenAIEmbeddings(...) succeeded, or failed and one of the two local models loaded
Init ==
    /\ documents = <<>>
    /\ vector_store = None
    /\ document_sources = << >>
    /\ sessions = << >>
    /\ \/ embeddings = OpenAIModel /\ embedding_type = "openai"
       \/ embeddings \in {MultilingualModel, BasicModel} /\ embedding_type = "local"
    /\ uuid_next = 0
    /\ call = [op |-> "__init__"]
    /\ result = None
    /\ requests = [r \in Requests |-> NewRequest]
    /\ running = "idle"

(***************************************************************************)
(* ChatService._rebuild_vector_store                                       *)
(***************************************************************************)

\* FAISS.from_documents(documents, embeddings): the index over the given chunks,
\* which keeps the embeddings object it was built with for its queries
FAISS(docs, emb) == [kind |-> "FAISS", docs |-> docs, embedding_function |-> emb]

\* one use of an embeddings object or model loader, as recorded in call.attempts
Attempt(what, model, outcome) == [what |-> what, model |-> model, outcome |-> outcome]

\* a quota test that takes every failure for a quota failure
RebuildIsQuota_Always(e) == TRUE

\* the quota test of lines 356: "quota" in str(e).lower() or "429" in str(e)
RebuildIsQuota(e) == Contains(Lower(e), <<"q", "u", "o", "t", "a">>) \/ Contains(e, <<"4", "2", "9">>)

\* a rebuild that switches to the local model on a quota failure but does not
\* build the index again
RebuildVectorStore_NoRetry(docs, vs, emb, etype, env) ==
    LET same == [vector_store |-> vs, embeddings |-> emb, embedding_type |-> etype]
        a1 == Attempt("from_documents", emb, env.build1)
        local == IF env.load_multi.ok THEN MultilingualModel ELSE BasicModel
        loads == IF env.load_multi.ok
                 THEN <<Attempt("load", MultilingualModel, env.load_multi)>>
                 ELSE <<Attempt("load", MultilingualModel, env.load_multi),
                        Attempt("load", BasicModel, env.load_basic)>>
    IN
    IF docs = <<>> THEN
        same @@ [attempts |-> <<>>, raised |-> Ok]
    ELSE IF env.build1.ok THEN
        [same EXCEPT !.vector_store = FAISS(docs, emb)]
            @@ [attempts |-> <<a1>>, raised |-> Ok]
    ELSE IF ~RebuildIsQuota(env.build1.error) THEN
        same @@ [attempts |-> <<a1>>, raised |-> env.build1]
    ELSE IF ~env.load_multi.ok /\ ~env.load_basic.ok THEN
        same @@ [attempts |-> <<a1>> \o loads, raised |-> env.load_basic]
    ELSE
        [vector_store |-> vs, embeddings |-> local, embedding_type |-> "local",
         attempts |-> <<a1>> \o loads, raised |-> env.build1]

\* a rebuild that leaves the service without an index when a build fails
RebuildVectorStore_DropsIndex(docs, vs, emb, etype, env) ==
    LET same == [vector_store |-> vs, embeddings |-> emb, embedding_type |-> etype]
        none == [vector_store |-> None, embeddings |-> emb, embedding_type |-> etype]
        a1 == Attempt("from_documents", emb, env.build1)
        local == IF env.load_multi.ok THEN MultilingualModel ELSE BasicModel
        loads == IF env.load_multi.ok
                 THEN <<Attempt("load", MultilingualModel, env.load_multi)>>
                 ELSE <<Attempt("load", MultilingualModel, env.load_multi),
                        Attempt("load", BasicModel, env.load_basic)>>
        a2 == Attempt("from_documents", local, env.build2)
    IN
    IF docs = <<>> THEN
        same @@ [attempts |-> <<>>, raised |-> Ok]
    ELSE IF env.build1.ok THEN
        [same EXCEPT !.vector_store = FAISS(docs, emb)]
            @@ [attempts |-> <<a1>>, raised |-> Ok]
    ELSE IF ~RebuildIsQuota(env.build1.error) THEN
        none @@ [attempts |-> <<a1>>, raised |-> env.build1]
    ELSE IF ~env.load_multi.ok /\ ~env.load_basic.ok THEN
        none @@ [attempts |-> <<a1>> \o loads, raised |-> env.load_basic]
    ELSE IF env.build2.ok THEN
        [vector_store |-> FAISS(docs, local), embeddings |-> local, embedding_type |-> "local",
         attempts |-> <<a1>> \o loads \o <<a2>>, raised |-> Ok]
    ELSE
        [vector_store |-> None, embeddings |-> local, embedding_type |-> "local",
         attempts |-> <<a1>> \o loads \o <<a2>>, raised |-> env.build2]

\* The state after _rebuild_vector_store and whether it raised.  env holds the
\* outcomes of the external calls it may make: build1 (the first from_documents),
\* load_multi and load_basic (the two SentenceTransformerEmbeddings constructors),
\* build2 (the second from_documents).
RebuildVectorStore(docs, vs, emb, etype, env) ==
    LET same == [vector_store |-> vs, embeddings |-> emb, embedding_type |-> etype]
        a1 == Attempt("from_documents", emb, env.build1)
        local == IF env.load_multi.ok THEN MultilingualModel ELSE BasicModel
        loads == IF env.load_multi.ok
                 THEN <<Attempt("load", MultilingualModel, env.load_multi)>>
                 ELSE <<Attempt("load", MultilingualModel, env.load_multi),
                        Attempt("load", BasicModel, env.load_basic)>>
        a2 == Attempt("from_documents", local, env.build2)
    IN
    IF docs = <<>> THEN
        same @@ [attempts |-> <<>>, raised |-> Ok]
    ELSE IF env.build1.ok THEN
        [same EXCEPT !.vector_store = FAISS(docs, emb)]
            @@ [attempts |-> <<a1>>, raised |-> Ok]
    ELSE IF ~RebuildIsQuota(env.build1.error) THEN
        same @@ [attempts |-> <<a1>>, raised |-> env.build1]
    ELSE IF ~env.load_multi.ok /\ ~env.load_basic.ok THEN
        same @@ [attempts |-> <<a1>> \o loads, raised |-> env.load_basic]
    ELSE IF env.build2.ok THEN
        [vector_store |-> FAISS(docs, local), embeddings |-> local, embedding_type |-> "local",
         attempts |-> <<a1>> \o loads \o <<a2>>, raised |-> Ok]
    ELSE
        [vector_store |-> vs, embeddings |-> local, embedding_type |-> "local",
         attempts |-> <<a1>> \o loads \o <<a2>>, raised |-> env.build2]

\* the outcomes _rebuild_vector_store can meet when its external calls fail with
\* the given exception texts; those of calls it does not reach are left at Ok
RebuildEnvs(errors) ==
    LET all == [build1 : Outcomes(errors), load_multi : {Ok, Fail(E_timeout)},
                load_basic : {Ok, Fail(E_timeout)}, build2 : Outcomes(errors)]
        retry(env) == ~env.build1.ok /\ RebuildIsQuota(env.build1.error)
    IN {env \in all :
            /\ ~retry(env) => env.load_multi.ok
            /\ env.load_multi.ok => env.load_basic.ok
            /\ (~retry(env) \/ ~env.load_basic.ok) => env.build2.ok}

(***************************************************************************)
(* ChatService.add_document                                                *)
(***************************************************************************)

\* chunk Documents numbered from one
ChunkDocuments_FromOne(chunks, filename, doc_hash) ==
    [i \in 1..Len(chunks) |->
        [page_content |-> chunks[i],
         metadata |-> [source |-> filename, chunk_id |-> i, document_id |-> doc_hash]]]

\* the chunk Documents of lines 79-90 (added_at, a wall-clock stamp, is left out)
ChunkDocuments(chunks, filename, doc_hash) ==
    [i \in 1..Len(chunks) |->
        [page_content |-> chunks[i],
         metadata |-> [source |-> filename, chunk_id |-> i - 1, document_id |-> doc_hash]]]

\* lines 95-100 (added_at left out)
SourceEntry(text, filename, chunks) ==
    [filename |-> filename, chunks |-> Len(chunks), character_count |-> Len(text)]

\* a dict that holds the new key alone
Put_Only(d, k, v) == [x \in {k} |-> v]

\* a dict with one more key
Put(d, k, v) == [x \in DOMAIN d \cup {k} |-> IF x = k THEN v ELSE d[x]]

\* what a try block did: the state it left, and the value it returned or the
\* exception it raised
Returned(st, value) == [st |-> st, raised |-> Ok, value |-> value]

Raised(st, exc) == [st |-> st, raised |-> exc, value |-> None]

\* the corpus part of the state
Corpus(docs, vs, srcs, emb, etype) ==
    [documents |-> docs, vector_store |-> vs, document_sources |-> srcs,
     embeddings |-> emb, embedding_type |-> etype, attempts |-> <<>>]

\* a duplicate check that never finds the digest
AlreadyExists_Never(doc_hash, srcs) == FALSE

\* line 66: doc_hash in self.document_sources
AlreadyExists(doc_hash, srcs) == doc_hash \in DOMAIN srcs

\* the try block of add_document, lines 60-111; env.split is the outcome of split_text
AddDocumentTry(c, text, filename, env) ==
    LET doc_hash == Md5(text)
        chunks == split_text(text)
        docs1 == c.documents \o ChunkDocuments(chunks, filename, doc_hash)
        srcs1 == Put(c.document_sources, doc_hash, SourceEntry(text, filename, chunks))
        rb == RebuildVectorStore(docs1, c.vector_store, c.embeddings, c.embedding_type, env)
        c1 == [documents |-> docs1, vector_store |-> rb.vector_store,
               document_sources |-> srcs1, embeddings |-> rb.embeddings,
               embedding_type |-> rb.embedding_type, attempts |-> rb.attempts]
    IN
    IF AlreadyExists(doc_hash, c.document_sources) THEN
        Returned(c, [success |-> FALSE,
                     message |-> Plain("Document already exists in knowledge base"),
                     document_id |-> doc_hash])
    ELSE IF ~env.split.ok THEN
        Raised(c, env.split)
    ELSE IF ~rb.raised.ok THEN
        Raised(c1, rb.raised)
    ELSE
        Returned(c1, [success |-> TRUE,
                      message |-> Fmt("Document processed into {} chunks", IntStr(Len(chunks))),
                      document_id |-> doc_hash,
                      chunks |-> Len(chunks)])

\* the except clause of add_document, lines 113-118
AddDocumentExcept(e) ==
    [success |-> FALSE, message |-> Fmt("Error processing document: {}", e)]

\* add_document without its except clause: the exception leaves the call
AddDocumentResult_Reraise(out) ==
    IF out.raised.ok THEN out.value ELSE [exception |-> out.raised.error]

\* try/except of add_document: the value the call returns
AddDocumentResult(out) ==
    IF out.raised.ok THEN out.value ELSE AddDocumentExcept(out.raised.error)

\* the outcomes add_document can meet: split_text, then those of the rebuild
AddEnvs(errors) ==
    {r @@ [split |-> Ok] : r \in RebuildEnvs(errors)}
        \cup {[build1 |-> Ok, load_multi |-> Ok, load_basic |-> Ok, build2 |-> Ok,
               split |-> Fail(E_timeout)]}

\* add_document(text, filename) when its external calls end as env says
AddDocumentStep(text, filename, env) ==
    LET c == Corpus(documents, vector_store, document_sources, embeddings, embedding_type)
        out == AddDocumentTry(c, text, filename, env)
    IN
    /\ call' = [op |-> "add_document", attempts |-> out.st.attempts]
    /\ result' = AddDocumentResult(out)
    /\ documents' = out.st.documents
    /\ vector_store' = out.st.vector_store
    /\ document_sources' = out.st.document_sources
    /\ embeddings' = out.st.embeddings
    /\ embedding_type' = out.st.embedding_type
    /\ UNCHANGED <<sessions, uuid_next, requests, running>>

add_document(text, filename) ==
    /\ Cardinality(DOMAIN document_sources) < MaxDocs
    /\ \E env \in AddEnvs(BuildErrors) : AddDocumentStep(text, filename, env)

(***************************************************************************)
(* Query augmentation of ask, lines 226-252                                *)
(***************************************************************************)

\* the Hebrew words and phrases of lines 229-240, letter by letter
H_hakovetz ==
    <<"he", "qof", "vav", "bet", "tsadi_f">>

H_hamismach ==
    <<"he", "mem", "samekh", "mem", "kaf_f">>

H_hatext ==
    <<"he", "tet", "qof", "samekh", "tet">>

H_hameida ==
    <<"he", "mem", "yod", "dalet", "ayin">>

H_tasbir ==
    <<"tav", "samekh", "bet", "yod", "resh">>

H_beivrit ==
    <<"bet", "ayin", "bet", "resh", "yod", "tav">>

H_tasbir_al_hakovetz ==
    <<"tav", "samekh", "bet", "yod", "resh", " ", "ayin", "lamed", " ", "he", "qof",
      "vav", "bet", "tsadi_f", " ", "bet", "bet", "qof", "shin", "he">>

H_ten_li_sikum ==
    <<"tav", "nun_f", " ", "lamed", "yod", " ", "samekh", "yod", "kaf", "vav", "mem_f">>

H_ma_yesh_bamismach ==
    <<"mem", "he", " ", "yod", "shin", " ", "bet", "mem", "samekh", "mem", "kaf_f">>

\* the Hebrew anchor of lines 231 and 241, and the replacement question of line 235
H_prefix ==
    <<"bet", "he", "tav", "bet", "samekh", "samekh", " ", "ayin", "lamed", " ", "he",
      "mem", "samekh", "mem", "kaf_f", " ", "shin", "he", "vav", "ayin", "lamed", "he",
      ",", " ">>

H_explain ==
    <<"tav", "samekh", "bet", "yod", "resh", " ", "alef", "tav", " ", "he", "tav",
      "vav", "kaf", "nun_f", " ", "shin", "lamed", " ", "he", "mem", "samekh", "mem",
      "kaf_f", " ", "shin", "he", "vav", "ayin", "lamed", "he", " ", "bet", "ayin",
      "bet", "resh", "yod", "tav">>

\* the English phrases of lines 244-251
S_the_file ==
    <<"t", "h", "e", " ", "f", "i", "l", "e">>

S_the_document ==
    <<"t", "h", "e", " ", "d", "o", "c", "u", "m", "e", "n", "t">>

S_this_document ==
    <<"t", "h", "i", "s", " ", "d", "o", "c", "u", "m", "e", "n", "t">>

S_explain_in_english ==
    <<"e", "x", "p", "l", "a", "i", "n", " ", "i", "n", " ", "e", "n", "g", "l", "i",
      "s", "h">>

S_summarize_this ==
    <<"s", "u", "m", "m", "a", "r", "i", "z", "e", " ", "t", "h", "i", "s">>

S_whats_in_this ==
    <<"w", "h", "a", "t", "'", "s", " ", "i", "n", " ", "t", "h", "i", "s">>

\* "Based on the uploaded document, "
S_prefix ==
    <<"B", "a", "s", "e", "d", " ", "o", "n", " ", "t", "h", "e", " ", "u", "p", "l",
      "o", "a", "d", "e", "d", " ", "d", "o", "c", "u", "m", "e", "n", "t", ",", " ">>

\* an augmentation that looks for the English phrases anywhere in the question
EnhanceQuestion_PhraseAnywhere(question) ==
    IF \E word \in {H_hakovetz, H_hamismach, H_hatext, H_hameida} : Contains(question, word)
    THEN H_prefix \o question
    ELSE IF Contains(question, H_tasbir)
            /\ (Contains(question, H_beivrit) \/ Len(SplitWords(question)) <= 3)
    THEN H_explain
    ELSE IF Strip(question) \in {H_tasbir_al_hakovetz, H_ten_li_sikum, H_ma_yesh_bamismach}
    THEN H_prefix \o question
    ELSE IF \E word \in {S_the_file, S_the_document, S_this_document,
                         S_explain_in_english, S_summarize_this, S_whats_in_this} :
                Contains(Lower(question), word)
    THEN S_prefix \o question
    ELSE question

\* enhanced_question of lines 226-252
EnhanceQuestion(question) ==
    IF \E word \in {H_hakovetz, H_hamismach, H_hatext, H_hameida} : Contains(question, word)
    THEN H_prefix \o question
    ELSE IF Contains(question, H_tasbir)
            /\ (Contains(question, H_beivrit) \/ Len(SplitWords(question)) <= 3)
    THEN H_explain
    ELSE IF Strip(question) \in {H_tasbir_al_hakovetz, H_ten_li_sikum, H_ma_yesh_bamismach}
    THEN H_prefix \o question
    ELSE IF \E word \in {S_the_file, S_the_document, S_this_document} :
                Contains(Lower(question), word)
    THEN S_prefix \o question
    ELSE IF Strip(Lower(question)) \in {S_explain_in_english, S_summarize_this, S_whats_in_this}
    THEN S_prefix \o question
    ELSE question

(***************************************************************************)
(* Session memory: ConversationBufferWindowMemory                          *)
(***************************************************************************)

\* k=5 of lines 140 and 181, k=6 of line 219
memory_k == 5

retriever_k == 6

\* the 200 characters of a content preview, lines 262-263; scaled with chunk_size
preview_len == 2

\* a memory object; its declared fields exist whatever their value, and an
\* output_key that was not given holds None (written "None" here)
Memory(memory_key, output_key, messages) ==
    [kind |-> "ConversationBufferWindowMemory", memory_key |-> memory_key,
     output_key |-> output_key, k |-> memory_k, chat_memory |-> [messages |-> messages]]

\* hasattr(obj, name) and the truth value of an object or None
HasAttr(obj, name) == name \in DOMAIN obj

Truthy(obj) == obj # None

\* a new memory object that starts empty
CopiedMessages_None(memory) == <<>>

\* the messages the new memory object starts with, lines 143-150 and 184-191
CopiedMessages(memory) ==
    IF Truthy(memory) /\ HasAttr(memory, "chat_memory") /\ HasAttr(memory.chat_memory, "messages")
    THEN memory.chat_memory.messages
    ELSE <<>>

\* session["memory"] after lines 136-152
DirectMemory(memory) ==
    IF memory = None \/ HasAttr(memory, "output_key")
    THEN Memory("history", "None", CopiedMessages(memory))
    ELSE memory

\* session["memory"] after lines 172-193
RagMemory(memory) ==
    IF memory = None \/ ~HasAttr(memory, "output_key") \/ memory.output_key # "answer"
    THEN Memory("chat_history", "answer", CopiedMessages(memory))
    ELSE memory

\* whether ask builds a new memory object for the session: the conditions of
\* lines 136-138 (direct branch) and 172-176 (RAG branch)
ConstructsMemory(memory, rag) ==
    IF rag
    THEN memory = None \/ ~HasAttr(memory, "output_key") \/ memory.output_key # "answer"
    ELSE memory = None \/ HasAttr(memory, "output_key")

HumanMessage(content) == [type |-> "HumanMessage", content |-> content]

AIMessage(content) == [type |-> "AIMessage", content |-> content]

\* a save_context that appends the answer before the question
SaveContext_OutputFirst(memory, input, output) ==
    [memory EXCEPT !.chat_memory.messages = @ \o <<AIMessage(output), HumanMessage(input)>>]

\* memory.save_context: the turn is appended to the transcript
SaveContext(memory, input, output) ==
    [memory EXCEPT !.chat_memory.messages = @ \o <<HumanMessage(input), AIMessage(output)>>]

\* a memory that loads its whole transcript
LoadMemory_All(memory) == memory.chat_memory.messages

\* memory.load_memory_variables: the last k turns
LoadMemory(memory) ==
    LET m == memory.chat_memory.messages IN Drop(m, Len(m) - Min(Len(m), 2 * memory.k))

(***************************************************************************)
(* ChatService.ask                                                         *)
(***************************************************************************)

\* questions: "Hi", "The file?"; the answer of the model: "ok"
Q_hi ==
    <<"H", "i">>

Q_file ==
    <<"T", "h", "e", " ", "f", "i", "l", "e", "?">>

A_ok ==
    <<"o", "k">>

Questions == {Q_file}

SessionIds == {}

\* str(uuid.uuid4()): the n-th id produced; ids do not repeat
Uuid4(n) == "uuid-" \o ToString(n)

\* the session_id argument when the caller gives none (None or "")
NoSessionId == ""

\* lines 258-266
SourceInfo(doc) ==
    [filename |-> doc.metadata.source,
     chunk_id |-> doc.metadata.chunk_id,
     content_preview |-> IF Len(doc.page_content) > preview_len
                         THEN Take(doc.page_content, preview_len) \o <<".", ".", ".">>
                         ELSE doc.page_content]

\* a loop that appends every source info, seen before or not
RECURSIVE SourcesLoop_NoDedup(_, _)
SourcesLoop_NoDedup(docs, sources) ==
    IF docs = <<>> THEN sources
    ELSE SourcesLoop_NoDedup(Tail(docs), Append(sources, SourceInfo(Head(docs))))

\* lines 256-268: the source infos of the retrieved documents, first occurrences only
RECURSIVE SourcesLoop(_, _)
SourcesLoop(docs, sources) ==
    IF docs = <<>> THEN sources
    ELSE LET source_info == SourceInfo(Head(docs)) IN
         SourcesLoop(Tail(docs),
                     IF \E i \in 1..Len(sources) : sources[i] = source_info
                     THEN sources ELSE Append(sources, source_info))

Sources(source_documents) == SourcesLoop(source_documents, <<>>)

\* similarity search with k=6: min(k, n) distinct entries of the index, in the
\* order of their similarity to the query, which the model does not compute
Retrievals(vs) ==
    LET n == Len(vs.docs)
        m == Min(retriever_k, n)
    IN {[i \in 1..m |-> vs.docs[f[i]]] :
            f \in {g \in [1..m -> 1..n] : \A a, b \in 1..m : a # b => g[a] # g[b]}}

\* the sessions part of the state
Sess(table, next) == [sessions |-> table, uuid_next |-> next]

\* a resolution that ignores the id the caller gives and always makes a new one
ResolveSession_AlwaysMint(st, session_id) ==
    LET sid == Uuid4(st.uuid_next + 1)
    IN [sid |-> sid,
        st |-> Sess(Put(st.sessions, sid, [memory |-> None, message_count |-> 0]),
                    st.uuid_next + 1)]

\* lines 122-132: the session id used and the table that holds it
ResolveSession(st, session_id) ==
    LET minted == session_id = NoSessionId
        sid == IF minted THEN Uuid4(st.uuid_next + 1) ELSE session_id
        table == IF sid \in DOMAIN st.sessions THEN st.sessions
                 ELSE Put(st.sessions, sid, [memory |-> None, message_count |-> 0])
    IN [sid |-> sid,
        st |-> Sess(table, IF minted THEN st.uuid_next + 1 ELSE st.uuid_next)]

\* a turn counted in every session of the table
RecordTurn_AllSessions(st, sid, input, output) ==
    Sess([x \in DOMAIN st.sessions |->
            IF x = sid
            THEN [st.sessions[x] EXCEPT !.memory = SaveContext(@, input, output),
                                        !.message_count = @ + 1]
            ELSE [st.sessions[x] EXCEPT !.message_count = @ + 1]], st.uuid_next)

\* the session after the turn is recorded, lines 158-161 and 254-271
RecordTurn(st, sid, input, output) ==
    Sess([st.sessions EXCEPT ![sid].memory = SaveContext(@, input, output),
                             ![sid].message_count = @ + 1], st.uuid_next)

\* a direct branch that reports the other mode
DirectChat_RagMode(st, sid, question, env) ==
    LET st2 == RecordTurn(st, sid, question, A_ok) IN
    IF ~env.llm.ok THEN Raised(st, env.llm)
    ELSE Returned(st2, [success |-> TRUE, answer |-> A_ok, sources |-> <<>>,
                        session_id |-> sid,
                        message_count |-> st2.sessions[sid].message_count,
                        mode |-> "rag_chat"])

\* a direct branch that has recorded the turn when the model call fails
DirectChat_RecordsOnFailure(st, sid, question, env) ==
    LET st2 == RecordTurn(st, sid, question, A_ok) IN
    IF ~env.llm.ok THEN Raised(st2, env.llm)
    ELSE Returned(st2, [success |-> TRUE, answer |-> A_ok, sources |-> <<>>,
                        session_id |-> sid,
                        message_count |-> st2.sessions[sid].message_count,
                        mode |-> "direct_chat"])

\* lines 154-170: the direct branch, on the session sid whose memory has the direct shape
DirectChat(st, sid, question, env) ==
    LET st2 == RecordTurn(st, sid, question, A_ok) IN
    IF ~env.llm.ok THEN Raised(st, env.llm)
    ELSE Returned(st2, [success |-> TRUE, answer |-> A_ok, sources |-> <<>>,
                        session_id |-> sid,
                        message_count |-> st2.sessions[sid].message_count,
                        mode |-> "direct_chat"])

\* lines 195-280: the RAG branch.  The chain rewrites the question with a model call
\* when the transcript is not empty, embeds the query, retrieves docs and answers.
RagChat(st, sid, question, env, docs) ==
    LET enhanced_question == EnhanceQuestion(question)
        st2 == RecordTurn(st, sid, enhanced_question, A_ok)
    IN
    IF LoadMemory(st.sessions[sid].memory) # <<>> /\ ~env.condense.ok
    THEN Raised(st, env.condense)
    ELSE IF ~env.embed_query.ok THEN Raised(st, env.embed_query)
    ELSE IF ~env.llm.ok THEN Raised(st, env.llm)
    ELSE Returned(st2, [success |-> TRUE, answer |-> A_ok, sources |-> Sources(docs),
                        session_id |-> sid,
                        message_count |-> st2.sessions[sid].message_count,
                        mode |-> "rag_chat"])

\* a try block that takes the session table back to what it was when the call fails
AskTry_RollsBack(st0, vs, question, session_id, env, docs) ==
    LET r == ResolveSession(st0, session_id)
        sid == r.sid
        session == r.st.sessions[sid]
        out == IF ~Truthy(vs)
               THEN DirectChat(Sess([r.st.sessions EXCEPT ![sid].memory = DirectMemory(session.memory)],
                                    r.st.uuid_next),
                               sid, question, env)
               ELSE RagChat(Sess([r.st.sessions EXCEPT ![sid].memory = RagMemory(session.memory)],
                                 r.st.uuid_next),
                            sid, question, env, docs)
    IN IF out.raised.ok THEN out ELSE Raised(st0, out.raised)

\* the try block of ask, lines 121-280.  env holds the outcomes of the external
\* calls: condense (the question-rewriting model call), embed_query, llm (the
\* answering model call); docs is what the retriever returns.
AskTry(st0, vs, question, session_id, env, docs) ==
    LET r == ResolveSession(st0, session_id)
        sid == r.sid
        session == r.st.sessions[sid]
    IN
    IF ~Truthy(vs)
    THEN DirectChat(Sess([r.st.sessions EXCEPT ![sid].memory = DirectMemory(session.memory)],
                         r.st.uuid_next),
                    sid, question, env)
    ELSE RagChat(Sess([r.st.sessions EXCEPT ![sid].memory = RagMemory(session.memory)],
                      r.st.uuid_next),
                 sid, question, env, docs)

\* a quota test that misses the status code
AskIsQuota_No429(error_str) ==
    Contains(Lower(error_str), <<"q", "u", "o", "t", "a">>)

\* the quota test of lines 286-290
AskIsQuota(error_str) ==
    \/ Contains(Lower(error_str), <<"q", "u", "o", "t", "a">>)
    \/ Contains(error_str, <<"4", "2", "9">>)
    \/ Contains(Lower(error_str),
                <<"i", "n", "s", "u", "f", "f", "i", "c", "i", "e", "n", "t", "_",
                  "q", "u", "o", "t", "a">>)

\* the except clause of ask, lines 282-314; the two answers are named, not spelled
AskExcept(error_str) ==
    IF AskIsQuota(error_str)
    THEN [success |-> FALSE, message |-> Plain("OpenAI API quota exceeded"),
          answer |-> "OpenAI API Quota Exceeded ... I just need API access to answer questions about them!"]
    ELSE [success |-> FALSE, message |-> Fmt("Error processing question: {}", error_str),
          answer |-> "I encountered an error while processing your question. Please try again."]

\* an except clause that handles the quota case only and raises the rest again
AskResult_Reraise(out) ==
    IF out.raised.ok THEN out.value
    ELSE IF AskIsQuota(out.raised.error) THEN AskExcept(out.raised.error)
    ELSE [exception |-> out.raised.error]

\* try/except of ask: the value the call returns
AskResult(out) == IF out.raised.ok THEN out.value ELSE AskExcept(out.raised.error)

\* the outcomes ask can meet when the answering model call fails with the given
\* exception texts; those of calls it does not reach are left at Ok
AskEnvs(rag, has_history, errors) ==
    LET all == [condense : {Ok, Fail(E_timeout)}, embed_query : Outcomes(BuildErrors),
                llm : Outcomes(errors)] IN
    {env \in all :
        /\ ~(rag /\ has_history) => env.condense.ok
        /\ (~rag \/ ~env.condense.ok) => env.embed_query.ok
        /\ (~env.condense.ok \/ ~env.embed_query.ok) => env.llm.ok}

TotalTurns ==
    LET RECURSIVE Sum(_)
        Sum(S) == IF S = {} THEN 0
                  ELSE LET x == CHOOSE y \in S : TRUE
                       IN sessions[x].message_count + Sum(S \ {x})
    IN Sum(DOMAIN sessions)

\* an ask that switches the service to the local provider when the embedding of
\* its query fails
AskStep_FallsBack(question, session_id, env, docs) ==
    LET out == AskTry(Sess(sessions, uuid_next), vector_store, question, session_id, env, docs)
    IN
    /\ call' = [op |-> "ask"]
    /\ result' = AskResult(out)
    /\ sessions' = out.st.sessions
    /\ uuid_next' = out.st.uuid_next
    /\ embeddings' = IF env.embed_query.ok THEN embeddings ELSE MultilingualModel
    /\ embedding_type' = IF env.embed_query.ok THEN embedding_type ELSE "local"
    /\ UNCHANGED <<documents, vector_store, document_sources, requests, running>>

\* ask(question, session_id) when its external calls end as env says and the
\* retriever returns docs
AskStep(question, session_id, env, docs) ==
    LET out == AskTry(Sess(sessions, uuid_next), vector_store, question, session_id, env, docs)
    IN
    /\ call' = [op |-> "ask"]
    /\ result' = AskResult(out)
    /\ sessions' = out.st.sessions
    /\ uuid_next' = out.st.uuid_next
    /\ UNCHANGED <<documents, vector_store, document_sources, embeddings, embedding_type,
                   requests, running>>

\* whether the session the call resolves to holds messages already
HasHistory(session_id) ==
    LET sid == ResolveSession(Sess(sessions, uuid_next), session_id).sid IN
    sid \in DOMAIN sessions /\ CopiedMessages(sessions[sid].memory) # <<>>

\* what the retriever can return to an ask that goes on to use it
AskDocs(env) ==
    IF Truthy(vector_store) /\ env.condense.ok /\ env.embed_query.ok /\ env.llm.ok
    THEN Retrievals(vector_store) ELSE {<<>>}

\* the embeddings object a query is embedded with: the one the index was built
\* with (FAISS keeps it), not self.embeddings
QueryEmbedder(vs) == vs.embedding_function

\* the uses of an embeddings object that ask makes: none in the direct branch or
\* when the question rewriting fails first, else the embedding of the query
AskAttempts(st0, vs, session_id, env) ==
    LET r == ResolveSession(st0, session_id)
        memory == RagMemory(r.st.sessions[r.sid].memory)
    IN
    IF ~Truthy(vs) THEN <<>>
    ELSE IF LoadMemory(memory) # <<>> /\ ~env.condense.ok THEN <<>>
    ELSE <<Attempt("embed_query", QueryEmbedder(vs), env.embed_query)>>

ask(question, session_id) ==
    /\ TotalTurns < MaxTurns
    /\ session_id = NoSessionId => uuid_next < MaxUuids
    /\ \E env \in AskEnvs(Truthy(vector_store), HasHistory(session_id), ErrorTexts) :
       \E docs \in AskDocs(env) :
            AskStep(question, session_id, env, docs)

(***************************************************************************)
(* ChatService.get_sources and ChatService.get_session_history             *)
(***************************************************************************)

\* lines 316-321
GetSources(srcs, docs) ==
    [documents |-> srcs, total_documents |-> Cardinality(DOMAIN srcs), total_chunks |-> Len(docs)]

get_sources ==
    /\ call' = [op |-> "get_sources"]
    /\ result' = GetSources(document_sources, documents)
    /\ UNCHANGED <<documents, vector_store, document_sources, sessions,
                   embeddings, embedding_type, uuid_next, requests, running>>

\* message.__class__.__name__.lower()
ClassNameLower(type) == IF type = "HumanMessage" THEN "humanmessage" ELSE "aimessage"

\* a history that answers for an unknown id as for a session just created
GetSessionHistory_Create(table, session_id) ==
    LET memory == IF session_id \in DOMAIN table THEN table[session_id].memory ELSE None
        msgs == IF HasAttr(memory, "chat_memory") /\ HasAttr(memory.chat_memory, "messages")
                THEN memory.chat_memory.messages ELSE <<>>
    IN [success |-> TRUE, session_id |-> session_id,
        message_count |-> IF session_id \in DOMAIN table
                          THEN table[session_id].message_count ELSE 0,
        messages |-> [i \in 1..Len(msgs) |->
                         [type |-> ClassNameLower(msgs[i].type),
                          content |-> msgs[i].content]]]

\* lines 323-346 (created_at left out)
GetSessionHistory(table, session_id) ==
    IF session_id \notin DOMAIN table
    THEN [success |-> FALSE, message |-> Plain("Session not found")]
    ELSE LET session == table[session_id]
             memory == session.memory
             msgs == IF HasAttr(memory, "chat_memory") /\ HasAttr(memory.chat_memory, "messages")
                     THEN memory.chat_memory.messages ELSE <<>>
         IN [success |-> TRUE, session_id |-> session_id,
             message_count |-> session.message_count,
             messages |-> [i \in 1..Len(msgs) |->
                              [type |-> ClassNameLower(msgs[i].type),
                               content |-> msgs[i].content]]]

get_session_history(session_id) ==
    /\ call' = [op |-> "get_session_history"]
    /\ result' = GetSessionHistory(sessions, session_id)
    /\ UNCHANGED <<documents, vector_store, document_sources, sessions,
                   embeddings, embedding_type, uuid_next, requests, running>>

\* the session ids a caller can give: its own, and those ask has handed out
KnownIds == SessionIds \cup {Uuid4(n) : n \in 1..uuid_next}

\* the operations that change the service
Next ==
    \/ \E text \in Texts, filename \in Filenames : add_document(text, filename)
    \/ \E question \in Questions, session_id \in KnownIds \cup {NoSessionId} :
            ask(question, session_id)

Spec == Init /\ [][Next]_vars

\* the ids history is asked for: those in use, and one that no ask was given
HistoryIds == KnownIds \cup {"no-such-session"}

\* the same with the two read-only operations
NextRead ==
    \/ Next
    \/ get_sources
    \/ \E session_id \in HistoryIds : get_session_history(session_id)

SpecRead == Init /\ [][NextRead]_vars

\* an id a caller makes up itself
CallerIds == {"s1"}

\* the service used by callers that bring their own session ids, over one document
NextSession ==
    \/ \E filename \in Filenames : add_document(T_ab, filename)
    \/ \E question \in Questions, session_id \in CallerIds \cup KnownIds \cup {NoSessionId} :
            ask(question, session_id)

SpecSession == Init /\ [][NextSession]_vars

(***************************************************************************)
(* Concurrent uploads: upload_document of main.py, an async handler that   *)
(* runs on the one event loop of the process and calls add_document in it  *)
(***************************************************************************)

\* a handler that gives up the event loop at every step, as one whose
\* add_document ran in a worker thread would
Suspends_EveryStep(pc) == TRUE

\* whether the handler gives up the event loop when it stands at pc: only at its
\* one await, file.read() in line 162; add_document is called without await
Suspends(pc) == pc = "reading"

\* who holds the event loop after request r has moved to pc
Yield(r, pc) == IF Suspends(pc) \/ pc = "done" THEN "idle" ELSE r

\* the event loop runs the handler of r: no other handler is in the middle of a run
Scheduled(r) == running \in {"idle", r}

\* the variables an upload does not touch
not_upload == <<sessions, uuid_next, call, result>>

\* the other requests that have arrived and are not answered yet
InFlight(r) == {q \in Requests \ {r} : requests[q].pc \notin {"new", "done"}}

\* the request arrives with its file and the handler runs to its await, lines
\* 158-162; overlaps notes whether another request was in flight then
UploadReceive(r, text) ==
    /\ requests[r].pc = "new"
    /\ Scheduled(r)
    /\ requests' = [requests EXCEPT ![r] = [pc |-> "reading", text |-> text,
                                            response |-> None,
                                            overlaps |-> InFlight(r) # {}]]
    /\ running' = Yield(r, "reading")
    /\ UNCHANGED <<documents, vector_store, document_sources, embeddings, embedding_type>>
    /\ UNCHANGED not_upload

\* file.read() is done; the handler validates and decodes the content and enters
\* add_document, lines 163-189 and chat.py 60-64
UploadRead(r) ==
    /\ requests[r].pc = "reading"
    /\ Scheduled(r)
    /\ requests' = [requests EXCEPT ![r].pc = "check"]
    /\ running' = Yield(r, "check")
    /\ UNCHANGED <<documents, vector_store, document_sources, embeddings, embedding_type>>
    /\ UNCHANGED not_upload

\* the duplicate check of add_document, chat.py 66-72
AddCheck(r) ==
    LET doc_hash == Md5(requests[r].text)
        pc == IF AlreadyExists(doc_hash, document_sources) THEN "done" ELSE "extend"
    IN
    /\ requests[r].pc = "check"
    /\ Scheduled(r)
    /\ requests' = [requests EXCEPT
            ![r].pc = pc,
            ![r].response = IF pc = "done"
                            THEN [success |-> FALSE,
                                  message |-> Plain("Document already exists in knowledge base"),
                                  document_id |-> doc_hash]
                            ELSE None]
    /\ running' = Yield(r, pc)
    /\ UNCHANGED <<documents, vector_store, document_sources, embeddings, embedding_type>>
    /\ UNCHANGED not_upload

\* chunking and the extension of chunk list and metadata, chat.py 75-100
AddExtend(r, split) ==
    LET text == requests[r].text
        doc_hash == Md5(text)
        chunks == split_text(text)
        pc == IF split.ok THEN "rebuild" ELSE "done"
    IN
    /\ requests[r].pc = "extend"
    /\ Scheduled(r)
    /\ IF split.ok
       THEN /\ documents' = documents \o ChunkDocuments(chunks, "a.txt", doc_hash)
            /\ document_sources' = Put(document_sources, doc_hash,
                                       SourceEntry(text, "a.txt", chunks))
       ELSE UNCHANGED <<documents, document_sources>>
    /\ requests' = [requests EXCEPT
            ![r].pc = pc,
            ![r].response = IF split.ok THEN None ELSE AddDocumentExcept(split.error)]
    /\ running' = Yield(r, pc)
    /\ UNCHANGED <<vector_store, embeddings, embedding_type>>
    /\ UNCHANGED not_upload

\* the rebuild of the index and the return of add_document, chat.py 103-118
AddRebuild(r, env) ==
    LET text == requests[r].text
        rb == RebuildVectorStore(documents, vector_store, embeddings, embedding_type, env)
    IN
    /\ requests[r].pc = "rebuild"
    /\ Scheduled(r)
    /\ vector_store' = rb.vector_store
    /\ embeddings' = rb.embeddings
    /\ embedding_type' = rb.embedding_type
    /\ requests' = [requests EXCEPT
            ![r].pc = "done",
            ![r].response =
                IF rb.raised.ok
                THEN [success |-> TRUE,
                      message |-> Fmt("Document processed into {} chunks",
                                      IntStr(Len(split_text(text)))),
                      document_id |-> Md5(text),
                      chunks |-> Len(split_text(text))]
                ELSE AddDocumentExcept(rb.raised.error)]
    /\ running' = Yield(r, "done")
    /\ UNCHANGED <<documents, document_sources>>
    /\ UNCHANGED not_upload

\* two uploads at the same time
Uploaders == {"r1", "r2"}

NextUpload ==
    \/ \E r \in Uploaders, text \in Texts : UploadReceive(r, text)
    \/ \E r \in Uploaders : UploadRead(r)
    \/ \E r \in Uploaders : AddCheck(r)
    \/ \E r \in Uploaders, split \in {Ok, Fail(E_timeout)} : AddExtend(r, split)
    \/ \E r \in Uploaders, env \in RebuildEnvs(BuildErrors) : AddRebuild(r, env)

SpecUpload == Init /\ [][NextUpload]_vars

(***************************************************************************)
(* Concurrent chats, uploads and reads: chat_endpoint, upload_document and *)
(* get_sources of main.py, async handlers without an await around the call *)
(* of the service; ask in the steps a second handler could fall between    *)
(***************************************************************************)

\* the chat request is sent; it waits until the event loop takes it up
ChatArrive(r, question, session_id) ==
    /\ requests[r].pc = "new"
    /\ requests' = [requests EXCEPT ![r] =
            [pc |-> "arrived", text |-> question, response |-> None,
             overlaps |-> InFlight(r) # {}, session_id |-> session_id,
             sid |-> NoSessionId, rag |-> FALSE, owns |-> FALSE, retriever |-> None]]
    /\ UNCHANGED <<documents, vector_store, document_sources, embeddings, embedding_type>>
    /\ UNCHANGED <<running, sessions, uuid_next, call, result>>

\* the handler starts: the message is not blank (main.py 137) and ask is entered
ChatStart(r) ==
    /\ requests[r].pc = "arrived"
    /\ Scheduled(r)
    /\ Strip(requests[r].text) # <<>>
    /\ requests' = [requests EXCEPT ![r].pc = "resolve"]
    /\ running' = Yield(r, "resolve")
    /\ UNCHANGED <<documents, vector_store, document_sources, embeddings, embedding_type>>
    /\ UNCHANGED <<sessions, uuid_next, call, result>>

\* chat.py 122-224: the session is found or created, the mode is taken from the
\* index, the memory gets the shape of the mode and the chain is built on it.  A
\* new memory object takes the place of the one a chain built earlier still holds.
AskResolve(r) ==
    LET rs == ResolveSession(Sess(sessions, uuid_next), requests[r].session_id)
        sid == rs.sid
        memory == rs.st.sessions[sid].memory
        rag == Truthy(vector_store)
        shaped == IF rag THEN RagMemory(memory) ELSE DirectMemory(memory)
    IN
    /\ requests[r].pc = "resolve"
    /\ Scheduled(r)
    /\ sessions' = [rs.st.sessions EXCEPT ![sid].memory = shaped]
    /\ uuid_next' = rs.st.uuid_next
    /\ requests' = [q \in Requests |->
            IF q = r
            THEN [requests[r] EXCEPT !.pc = "invoke", !.sid = sid, !.rag = rag,
                                     !.owns = TRUE, !.retriever = vector_store]
            ELSE IF /\ ConstructsMemory(memory, rag)
                    /\ requests[q].pc \in {"invoke", "count"}
                    /\ requests[q].sid = sid
                 THEN [requests[q] EXCEPT !.owns = FALSE]
                 ELSE requests[q]]
    /\ running' = Yield(r, "invoke")
    /\ UNCHANGED <<documents, vector_store, document_sources, embeddings, embedding_type>>
    /\ UNCHANGED <<call, result>>

\* the external call of the except clause's concern, if one of the calls the
\* chain makes fails: the first that does
AskFailure(rag, has_history, env) ==
    IF rag /\ has_history /\ ~env.condense.ok THEN env.condense
    ELSE IF rag /\ ~env.embed_query.ok THEN env.embed_query
    ELSE env.llm

\* chat.py 156 and 254: the chain loads the memory, calls the model (in the RAG
\* branch after rewriting the question and retrieving) and saves the turn in its
\* memory object; a failure goes to the except clause, chat.py 282-314
AskInvoke(r, env, docs) ==
    LET sid == requests[r].sid
        rag == requests[r].rag
        input == IF rag THEN EnhanceQuestion(requests[r].text) ELSE requests[r].text
        failure == AskFailure(rag, LoadMemory(sessions[sid].memory) # <<>>, env)
        pc == IF failure.ok THEN "count" ELSE "done"
    IN
    /\ requests[r].pc = "invoke"
    /\ Scheduled(r)
    /\ sessions' = IF failure.ok /\ requests[r].owns
                   THEN [sessions EXCEPT ![sid].memory = SaveContext(@, input, A_ok)]
                   ELSE sessions
    /\ requests' = [requests EXCEPT
            ![r].pc = pc,
            ![r].response = IF failure.ok
                            THEN [success |-> TRUE, answer |-> A_ok,
                                  sources |-> Sources(docs)]
                            ELSE AskExcept(failure.error)]
    /\ running' = Yield(r, pc)
    /\ UNCHANGED <<documents, vector_store, document_sources, embeddings, embedding_type>>
    /\ UNCHANGED <<uuid_next, call, result>>

\* chat.py 160-170 and 270-280: the turn is counted and the result returned
AskCount(r) ==
    LET sid == requests[r].sid IN
    /\ requests[r].pc = "count"
    /\ Scheduled(r)
    /\ sessions' = [sessions EXCEPT ![sid].message_count = @ + 1]
    /\ requests' = [requests EXCEPT
            ![r].pc = "done",
            ![r].response = @ @@ [session_id |-> sid,
                                  message_count |-> sessions[sid].message_count + 1,
                                  mode |-> IF requests[r].rag THEN "rag_chat"
                                           ELSE "direct_chat"]]
    /\ running' = Yield(r, "done")
    /\ UNCHANGED <<documents, vector_store, document_sources, embeddings, embedding_type>>
    /\ UNCHANGED <<uuid_next, call, result>>

\* GET /api/sources, main.py 212-214: the handler runs get_sources in one piece
SourcesRequest ==
    /\ running = "idle"
    /\ get_sources

\* the requests that chat, and the one that uploads
Chatters == {"r1", "r2"}

Uploader == "r3"

\* what the retriever of request r can return to an invocation that uses it
InvokeDocs(r, env) ==
    IF requests[r].rag /\ env.condense.ok /\ env.embed_query.ok /\ env.llm.ok
    THEN Retrievals(requests[r].retriever) ELSE {<<>>}

\* the model call of request r, with the outcomes it can meet
ChatInvoke(r) ==
    /\ requests[r].pc = "invoke"
    /\ \E env \in AskEnvs(requests[r].rag,
                           LoadMemory(sessions[requests[r].sid].memory) # <<>>,
                           {E_timeout}) :
       \E docs \in InvokeDocs(r, env) : AskInvoke(r, env, docs)

NextServe ==
    \/ UploadReceive(Uploader, T_ab)
    \/ UploadRead(Uploader)
    \/ AddCheck(Uploader)
    \/ \E split \in {Ok, Fail(E_timeout)} : AddExtend(Uploader, split)
    \/ \E env \in RebuildEnvs({E_timeout}) : AddRebuild(Uploader, env)
    \/ \E r \in Chatters, question \in Questions, session_id \in CallerIds \cup {NoSessionId} :
            ChatArrive(r, question, session_id)
    \/ \E r \in Chatters : ChatStart(r)
    \/ \E r \in Chatters : AskResolve(r)
    \/ \E r \in Chatters : ChatInvoke(r)
    \/ \E r \in Chatters : AskCount(r)
    \/ SourcesRequest

SpecServe == Init /\ [][NextServe]_vars

(***************************************************************************)
(* The query augmentation on its own: enhanced_question for questions put  *)
(* together from the words and phrases its tests look for                  *)
(***************************************************************************)

\* the most words or phrases a question is put together from
MaxWords == 2

Q_The_File ==
    <<"T", "h", "e", " ", "F", "i", "l", "e">>

Q_pls ==
    <<"p", "l", "s">>

EnhanceWords ==
    {H_hakovetz, H_tasbir, H_beivrit, H_ten_li_sikum, S_summarize_this, Q_The_File, Q_pls}

\* " ".join(words)
RECURSIVE JoinSpaced(_)
JoinSpaced(words) ==
    IF Len(words) = 1 THEN Head(words) ELSE Head(words) \o <<" ">> \o JoinSpaced(Tail(words))

\* the questions: one to MaxWords words or phrases, bare or within blanks
EnhanceInputs ==
    LET bare == {JoinSpaced(ws) : ws \in UNION {[1..n -> EnhanceWords] : n \in 1..MaxWords}}
    IN bare \cup {<<" ">> \o q \o <<" ">> : q \in bare}

\* a service in RAG mode is handed the question
InitEnhance ==
    /\ documents = <<>>
    /\ vector_store = None
    /\ document_sources = << >>
    /\ sessions = << >>
    /\ \/ embeddings = OpenAIModel /\ embedding_type = "openai"
       \/ embeddings \in {MultilingualModel, BasicModel} /\ embedding_type = "local"
    /\ uuid_next = 0
    /\ \E question \in EnhanceInputs : call = [op |-> "question", question |-> question]
    /\ result = None
    /\ requests = [r \in Requests |-> NewRequest]
    /\ running = "idle"

\* lines 226-254: the question as ask hands it to the chain
enhance_question ==
    /\ call.op = "question"
    /\ call' = [op |-> "enhance", question |-> call.question]
    /\ result' = EnhanceQuestion(call.question)
    /\ UNCHANGED <<documents, vector_store, document_sources, sessions, embeddings,
                   embedding_type, uuid_next, requests, running>>

NextEnhance == enhance_question

SpecEnhance == InitEnhance /\ [][NextEnhance]_vars

(***************************************************************************)
(* The transport: chat_endpoint and upload_document of main.py, each taken *)
(* from the arrival of the request to its response                         *)
(***************************************************************************)

\* settings.max_file_size, config.py line 16, scaled with the texts
max_file_size == 5

\* line 166
allowed_types ==
    {<<".", "t", "x", "t">>, <<".", "m", "d">>, <<".", "c", "s", "v">>,
     <<".", "j", "s", "o", "n">>, <<".", "p", "y">>, <<".", "j", "s">>,
     <<".", "h", "t", "m", "l">>, <<".", "c", "s", "s">>, <<".", "p", "d", "f">>}

\* os.path.splitext(p)[1]: from the last dot of the last path component on, unless
\* only dots come before it there
SplitExt(p) ==
    LET seps == {i \in 1..Len(p) : p[i] = "/"}
        sep == IF seps = {} THEN 0 ELSE CHOOSE i \in seps : \A j \in seps : j <= i
        dots == {i \in (sep + 1)..Len(p) : p[i] = "."}
        dot == CHOOSE i \in dots : \A j \in dots : j <= i
    IN IF dots = {} THEN <<>>
       ELSE IF \E i \in (sep + 1)..(dot - 1) : p[i] # "." THEN Drop(p, dot - 1)
       ELSE <<>>

\* a byte that starts no UTF-8 sequence
BadByte == "0xff"

\* a decoding that leaves out the bytes it cannot read
Decode_Ignore(content) ==
    [ok |-> TRUE, error |-> "", text |-> SelectSeq(content, LAMBDA b : b # BadByte)]

\* content.decode('utf-8') of line 182, for content of one-byte characters
Decode(content) ==
    IF \E i \in 1..Len(content) : content[i] = BadByte
    THEN [ok |-> FALSE, error |-> "UnicodeDecodeError", text |-> <<>>]
    ELSE [ok |-> TRUE, error |-> "", text |-> content]

HTTPException(status_code, detail) == [status_code |-> status_code, detail |-> detail]

\* lines 142-155
ChatResponse(res) ==
    IF ~res.success
    THEN [success |-> FALSE, answer |-> res.answer, sources |-> <<>>, session_id |-> None,
          message_count |-> None, message |-> res.message]
    ELSE [success |-> TRUE, answer |-> res.answer, sources |-> res.sources,
          session_id |-> res.session_id, message_count |-> res.message_count,
          message |-> None]

\* lines 191-199
UploadResponse(res) ==
    IF ~res.success THEN HTTPException(400, res.message)
    ELSE [success |-> TRUE, message |-> res.message, document_id |-> res.document_id,
          chunks |-> res.chunks]

\* whether a request has been turned away since the service started
RejectedBefore == "rejected" \in DOMAIN call /\ call.rejected

\* a request turned away before the service is called
Reject(op, input, exc) ==
    /\ call' = [op |-> op, input |-> input, invoked |-> FALSE, rejected |-> TRUE]
    /\ result' = exc
    /\ UNCHANGED <<documents, vector_store, document_sources, sessions, embeddings,
                   embedding_type, uuid_next, requests, running>>

\* lines 136-155: POST /api/chat
chat_endpoint(message, session_id) ==
    IF Strip(message) = <<>>
    THEN Reject("chat_endpoint", [message |-> message],
                HTTPException(400, "Message cannot be empty"))
    ELSE /\ TotalTurns < MaxTurns
         /\ session_id = NoSessionId => uuid_next < MaxUuids
         /\ \E env \in AskEnvs(Truthy(vector_store), HasHistory(session_id), {E_timeout}) :
            \E docs \in AskDocs(env) :
              LET out == AskTry(Sess(sessions, uuid_next), vector_store, message,
                                session_id, env, docs)
              IN /\ call' = [op |-> "chat_endpoint", input |-> [message |-> message],
                             invoked |-> TRUE, rejected |-> RejectedBefore]
                 /\ result' = ChatResponse(AskResult(out))
                 /\ sessions' = out.st.sessions
                 /\ uuid_next' = out.st.uuid_next
                 /\ UNCHANGED <<documents, vector_store, document_sources, embeddings,
                                embedding_type, requests, running>>

\* what extract_pdf_text makes of a file: a text, blank when the pages hold none,
\* or an exception
PdfOutcomes == {[ok |-> TRUE, error |-> "", text |-> T_ab],
                [ok |-> TRUE, error |-> "", text |-> <<>>],
                [ok |-> FALSE, error |-> "Failed to extract text from PDF", text |-> <<>>]}

\* lines 174-187: the text of the file, or the exception the handler answers with
ExtractText(file_ext, content, pdf) ==
    IF file_ext = <<".", "p", "d", "f">>
    THEN IF ~pdf.ok
         THEN [ok |-> FALSE, exc |-> HTTPException(400, Fmt("Error processing file: {}", pdf.error))]
         ELSE IF Strip(pdf.text) = <<>>
         THEN [ok |-> FALSE,
               exc |-> HTTPException(400, Fmt("Error processing file: {}",
                                              "No text content extracted from PDF"))]
         ELSE [ok |-> TRUE, text |-> pdf.text]
    ELSE LET d == Decode(content) IN
         IF ~d.ok THEN [ok |-> FALSE, exc |-> HTTPException(400, "File must be valid UTF-8 text")]
         ELSE [ok |-> TRUE, text |-> d.text]

\* lines 158-200: POST /api/upload of a file with the given name and content
upload_document(file, pdf) ==
    LET file_ext == Lower(SplitExt(file.filename))
        x == ExtractText(file_ext, file.content, pdf)
    IN
    IF file.filename = <<>>
    THEN Reject("upload_document", file, HTTPException(400, "No file provided"))
    ELSE IF Len(file.content) > max_file_size
    THEN Reject("upload_document", file, HTTPException(413, "File too large"))
    ELSE IF file_ext \notin allowed_types
    THEN Reject("upload_document", file, HTTPException(400, "Unsupported file type"))
    ELSE IF ~x.ok
    THEN Reject("upload_document", file, x.exc)
    ELSE /\ Cardinality(DOMAIN document_sources) < MaxDocs
         /\ \E env \in AddEnvs({E_timeout}) :
              LET c == Corpus(documents, vector_store, document_sources, embeddings,
                              embedding_type)
                  out == AddDocumentTry(c, x.text, file.filename, env)
              IN /\ call' = [op |-> "upload_document", input |-> file, invoked |-> TRUE,
                             rejected |-> RejectedBefore]
                 /\ result' = UploadResponse(AddDocumentResult(out))
                 /\ documents' = out.st.documents
                 /\ vector_store' = out.st.vector_store
                 /\ document_sources' = out.st.document_sources
                 /\ embeddings' = out.st.embeddings
                 /\ embedding_type' = out.st.embedding_type
                 /\ UNCHANGED <<sessions, uuid_next, requests, running>>

File(filename, content) == [filename |-> filename, content |-> content]

N_a_txt == <<"a", ".", "t", "x", "t">>

N_A_TXT == <<"A", ".", "T", "X", "T">>

N_a_exe == <<"a", ".", "e", "x", "e">>

N_a_pdf == <<"a", ".", "p", "d", "f">>

N_a == <<"a">>

B_bad == <<"a", "b", BadByte>>

B_big == <<"a", "b", " ", "c", "d", "e">>

\* the uploads: accepted text files, a PDF, and files of the kinds the handler
\* turns away (no name, no or a foreign extension, too many bytes, no UTF-8)
Files ==
    {File(N_a_txt, T_ab), File(N_A_TXT, T_ab_cd), File(N_a_pdf, B_bad),
     File(<<>>, T_ab), File(N_a, T_ab), File(N_a_exe, T_ab), File(N_a_txt, B_big),
     File(N_a_txt, B_bad)}

\* the chat messages: a question, the empty message and a blank one
Messages == {Q_file, <<>>, <<" ", "\n">>}

\* the ways extract_pdf_text can end for the file; it is called for a PDF only
PdfRuns(file) ==
    IF Lower(SplitExt(file.filename)) = <<".", "p", "d", "f">> THEN PdfOutcomes
    ELSE {[ok |-> TRUE, error |-> "", text |-> <<>>]}

NextTransport ==
    \/ \E message \in Messages, session_id \in KnownIds \cup {NoSessionId} :
            chat_endpoint(message, session_id)
    \/ \E file \in Files : \E pdf \in PdfRuns(file) : upload_document(file, pdf)

SpecTransport == Init /\ [][NextTransport]_vars

(***************************************************************************)
(* The text splitter on its own: split_text for every short text over a    *)
(* few letters and the characters of the separators                        *)
(***************************************************************************)

\* the longest text that is split
MaxLen == 5

SplitChars == {"a", "b", " ", "\n", "."}

SplitInputs == UNION {[1..n -> SplitChars] : n \in 0..MaxLen}

\* a service is handed the text of a document
InitChunker ==
    /\ documents = <<>>
    /\ vector_store = None
    /\ document_sources = << >>
    /\ sessions = << >>
    /\ \/ embeddings = OpenAIModel /\ embedding_type = "openai"
       \/ embeddings \in {MultilingualModel, BasicModel} /\ embedding_type = "local"
    /\ uuid_next = 0
    /\ \E text \in SplitInputs : call = [op |-> "text", text |-> text]
    /\ result = None
    /\ requests = [r \in Requests |-> NewRequest]
    /\ running = "idle"

\* line 75: chunks = self.text_splitter.split_text(text)
split_text_call ==
    /\ call.op = "text"
    /\ call' = [op |-> "split_text", text |-> call.text]
    /\ result' = split_text(call.text)
    /\ UNCHANGED <<documents, vector_store, document_sources, sessions, embeddings,
                   embedding_type, uuid_next, requests, running>>

NextChunker == split_text_call

SpecChunker == InitChunker /\ [][NextChunker]_vars

(***************************************************************************)
(* One long conversation: asks of the session s1, more than the memory     *)
(* window holds, with an upload that moves the session to RAG mode         *)
(***************************************************************************)

\* the most turns of the conversation
MaxWindowTurns == 7

\* the transcript that the chain loads from the session's memory and hands to
\* the model with the question, lines 154-158 and 195-254: the memory is shaped
\* for the mode first
AskContext(st0, vs, session_id) ==
    LET r == ResolveSession(st0, session_id)
        memory == r.st.sessions[r.sid].memory
    IN LoadMemory(IF Truthy(vs) THEN RagMemory(memory) ELSE DirectMemory(memory))

ask_window(question, session_id) ==
    /\ TotalTurns < MaxWindowTurns
    /\ \E env \in AskEnvs(Truthy(vector_store), HasHistory(session_id), {E_timeout}) :
       \E docs \in AskDocs(env) :
            AskStep(question, session_id, env, docs)

NextWindow ==
    \/ add_document(T_ab, "a.txt")
    \/ \E question \in Questions, session_id \in CallerIds : ask_window(question, session_id)

SpecWindow == Init /\ [][NextWindow]_vars

(***************************************************************************)
(* Uploads of two texts under two file names: add_document with its        *)
(* arguments kept in call                                                  *)
(***************************************************************************)

UploadNames == {"a.txt", "b.txt"}

UploadTexts == {T_ab, T_ab_cd}

\* add_document(text, filename) when its external calls end as env says
AddNamedStep(text, filename, env) ==
    LET c == Corpus(documents, vector_store, document_sources, embeddings, embedding_type)
        out == AddDocumentTry(c, text, filename, env)
    IN
    /\ call' = [op |-> "add_document", attempts |-> out.st.attempts,
                text |-> text, filename |-> filename]
    /\ result' = AddDocumentResult(out)
    /\ documents' = out.st.documents
    /\ vector_store' = out.st.vector_store
    /\ document_sources' = out.st.document_sources
    /\ embeddings' = out.st.embeddings
    /\ embedding_type' = out.st.embedding_type
    /\ UNCHANGED <<sessions, uuid_next, requests, running>>

\* a text that is recorded already can be submitted again at any time
add_named(text, filename) ==
    /\ Md5(text) \in DOMAIN document_sources \/ Cardinality(DOMAIN document_sources) < MaxDocs
    /\ \E env \in AddEnvs({E_timeout}) : AddNamedStep(text, filename, env)

NextIdentity == \E text \in UploadTexts, filename \in UploadNames : add_named(text, filename)

SpecIdentity == Init /\ [][NextIdentity]_vars

(***************************************************************************)
(* Properties                                                              *)
(***************************************************************************)

\* the three parts of the corpus that an ingestion publishes
corpus == <<documents, document_sources, vector_store>>

\* the failure signature the specification names: the text contains "quota" (and
\* so also when it contains "insufficient_quota") in any letter case, or "429"
QuotaSignature(e) ==
    LET l == Lower(e) IN
    \/ \E i \in 1..(Len(l) - 4) :
            l[i] = "q" /\ l[i + 1] = "u" /\ l[i + 2] = "o" /\ l[i + 3] = "t" /\ l[i + 4] = "a"
    \/ \E i \in 1..(Len(e) - 2) : e[i] = "4" /\ e[i + 1] = "2" /\ e[i + 2] = "9"

\* the two answers of a failed ask
QuotaAnswer ==
    [success |-> FALSE, message |-> Plain("OpenAI API quota exceeded"),
     answer |-> "OpenAI API Quota Exceeded ... I just need API access to answer questions about them!"]

GenericAnswer(e) ==
    [success |-> FALSE, message |-> Fmt("Error processing question: {}", e),
     answer |-> "I encountered an error while processing your question. Please try again."]

DuplicateMessage == Plain("Document already exists in knowledge base")

\* C1: while no index exists, every successful ask returns mode direct_chat and
\* an empty sources list, in any session and after any earlier asks.
C1_DirectWhileNoIndex ==
    (call.op = "ask" /\ result.success /\ vector_store = None)
        => (result.mode = "direct_chat" /\ result.sources = <<>>)

\* a second successful direct turn of a session, with a document recorded but no index
C1_Witness ==
    /\ call.op = "ask" /\ result.success /\ vector_store = None
    /\ result.message_count = 2 /\ result.mode = "direct_chat"
    /\ document_sources # << >>

\* C2: after an add that returned success, the next successful ask returns
\* mode rag_chat.
C2_RagAfterSuccessfulAdd ==
    [][(call.op = "add_document" /\ result.success
            /\ call'.op = "ask" /\ result'.success)
        => result'.mode = "rag_chat"]_vars

\* C3: adding text whose digest is already recorded returns success=false with
\* the duplicate signal and leaves chunk list, metadata, total_chunks and index
\* as they were.
C3_DuplicateAddIsNoOp ==
    [][\A text \in Texts, filename \in Filenames :
          (/\ call'.op = "add_document"
           /\ Md5(text) \in DOMAIN document_sources
           /\ \E env \in AddEnvs(BuildErrors) : AddDocumentStep(text, filename, env))
          => /\ result' = [success |-> FALSE, message |-> DuplicateMessage,
                           document_id |-> Md5(text)]
             /\ UNCHANGED corpus
             /\ GetSources(document_sources', documents').total_chunks
                    = GetSources(document_sources, documents).total_chunks]_vars

\* a duplicate was rejected while an index over the accepted chunks exists
C3_Witness ==
    /\ call.op = "add_document" /\ ~result.success /\ result.message = DuplicateMessage
    /\ Truthy(vector_store) /\ vector_store.docs = documents

\* the session's memory has the direct shape and holds messages
C4_DirectTranscript(sid) ==
    /\ sid \in DOMAIN sessions
    /\ sessions[sid].memory # None
    /\ sessions[sid].memory.output_key # "answer"
    /\ sessions[sid].memory.chat_memory.messages # <<>>

\* C4: a successful ask on a session with direct-mode turns, once an index exists,
\* moves the memory to the RAG shape, continues message_count, and history returns
\* every earlier message unchanged and in order before the new turn.
C4_MigrationKeepsTranscript ==
    [][\A sid \in DOMAIN sessions :
          (/\ call'.op = "ask" /\ result'.success /\ result'.session_id = sid
           /\ Truthy(vector_store) /\ C4_DirectTranscript(sid))
          => LET before == GetSessionHistory(sessions, sid)
                 after == GetSessionHistory(sessions', sid)
                 n == Len(before.messages)
             IN /\ sessions'[sid].memory.output_key = "answer"
                /\ result'.mode = "rag_chat"
                /\ result'.message_count = before.message_count + 1
                /\ after.message_count = before.message_count + 1
                /\ Len(after.messages) = n + 2
                /\ SubSeq(after.messages, 1, n) = before.messages
                /\ after.messages[n + 1].type = "humanmessage"
                /\ after.messages[n + 2] = [type |-> "aimessage", content |-> A_ok]]_vars

\* a RAG turn was recorded after a direct turn of the same session
C4_Witness ==
    /\ call.op = "ask" /\ result.success /\ result.mode = "rag_chat"
    /\ result.message_count = 2
    /\ LET m == sessions[result.session_id].memory.chat_memory.messages
       IN Len(m) = 4 /\ m[1] = HumanMessage(Q_file) /\ m[3] = HumanMessage(S_prefix \o Q_file)

\* the message_count and transcript of a session
C5_View(table, sid) == GetSessionHistory(table, sid)

\* C5: an ask without a session id returns an id no earlier ask obtained, and an
\* ask leaves the message_count and transcript of every other session unchanged.
C5_SessionIsolation ==
    [][\A question \in Questions, session_id \in KnownIds \cup {NoSessionId} :
          (/\ call'.op = "ask"
           /\ \E env \in AskEnvs(Truthy(vector_store), HasHistory(session_id), ErrorTexts) :
                \E docs \in AskDocs(env) : AskStep(question, session_id, env, docs))
          => /\ (session_id = NoSessionId /\ result'.success)
                    => /\ result'.session_id \notin DOMAIN sessions
                       /\ result'.session_id \in DOMAIN sessions'
             /\ (session_id # NoSessionId /\ result'.success)
                    => result'.session_id = session_id
             /\ \A other \in DOMAIN sessions :
                    (session_id = NoSessionId \/ other # session_id)
                        => C5_View(sessions', other) = C5_View(sessions, other)]_vars

\* two sessions obtained without an id, each with one turn
C5_Witness ==
    /\ call.op = "ask" /\ result.success
    /\ DOMAIN sessions = {Uuid4(1), Uuid4(2)}
    /\ sessions[Uuid4(1)].message_count = 1
    /\ sessions[Uuid4(2)].message_count = 1

\* C6: ask always returns a structured result with a boolean success and an answer.
C6_AskNeverRaises ==
    call.op = "ask"
        => /\ {"success", "answer"} \subseteq DOMAIN result
           /\ result.success \in BOOLEAN

\* an ask failed and returned the generic answer
C6_Witness ==
    /\ call.op = "ask" /\ "success" \in DOMAIN result /\ ~result.success
    /\ result = GenericAnswer(E_timeout)

\* C7: a model invocation failing with a quota/rate-limit signature yields
\* success=false with the quota message and answer; any other failure of it yields
\* success=false with the generic answer.
C7_AskFailureAnswers ==
    [][\A question \in Questions, session_id \in KnownIds \cup {NoSessionId} :
          call'.op = "ask" =>
            \A env \in AskEnvs(Truthy(vector_store), HasHistory(session_id), ErrorTexts) :
                LET failed == IF ~env.condense.ok THEN env.condense ELSE env.llm IN
                (/\ ~failed.ok /\ env.embed_query.ok
                 /\ AskStep(question, session_id, env, <<>>))
                => result' = IF QuotaSignature(failed.error)
                             THEN QuotaAnswer ELSE GenericAnswer(failed.error)]_vars

\* an ask failed and returned the quota answer
C7_Witness == call.op = "ask" /\ result = QuotaAnswer

\* the exception an add_document meets, if the calls it reaches end as env says
C8_Failure(docs, text, env) ==
    IF ~env.split.ok THEN env.split
    ELSE IF docs \o split_text(text) = <<>> THEN Ok
    ELSE IF env.build1.ok THEN Ok
    ELSE IF ~QuotaSignature(env.build1.error) THEN env.build1
    ELSE IF ~env.load_multi.ok /\ ~env.load_basic.ok THEN env.load_basic
    ELSE env.build2

\* C8: add_document always returns a structured result; a failure of chunking,
\* embedding or index build is returned as success=false with a message.
C8_AddNeverRaises ==
    [][call'.op = "add_document" =>
          /\ {"success", "message"} \subseteq DOMAIN result'
          /\ result'.success \in BOOLEAN
          /\ \A text \in Texts, filename \in Filenames, env \in AddEnvs(BuildErrors) :
                (/\ Md5(text) \notin DOMAIN document_sources
                 /\ ~C8_Failure(documents, text, env).ok
                 /\ AddDocumentStep(text, filename, env))
                => result' = [success |-> FALSE,
                              message |-> Fmt("Error processing document: {}",
                                              C8_Failure(documents, text, env).error)]]_vars

\* an add failed on an exception and returned it as a message
C8_Witness ==
    /\ call.op = "add_document" /\ ~result.success
    /\ result.message = Fmt("Error processing document: {}", E_timeout)
    /\ documents # <<>>

\* C9: an add whose index rebuild fails returns success=false and leaves chunk
\* list, metadata and index as before, so that its text is not a duplicate later.
C9_FailedRebuildLeavesCorpus ==
    [][\A text \in Texts, filename \in Filenames, env \in AddEnvs(BuildErrors) :
          (/\ call'.op = "add_document"
           /\ Md5(text) \notin DOMAIN document_sources
           /\ env.split.ok
           /\ ~C8_Failure(documents, text, env).ok
           /\ AddDocumentStep(text, filename, env))
          => /\ ~result'.success
             /\ UNCHANGED corpus
             /\ Md5(text) \notin DOMAIN document_sources']_vars

\* C10: whenever an index exists, the chunks it was built from are exactly the
\* chunks of the document store.
C10_IndexReflectsChunks ==
    Truthy(vector_store)
        => {vector_store.docs[i] : i \in 1..Len(vector_store.docs)}
                = {documents[i] : i \in 1..Len(documents)}

\* the embeddings objects and model loaders an add uses, in order
AddAttempts(text, filename, env) ==
    AddDocumentTry(Corpus(documents, vector_store, document_sources, embeddings,
                          embedding_type), text, filename, env).st.attempts

\* no use of the remote embeddings object among the attempts
NoRemoteAttempt(attempts) ==
    \A i \in 1..Len(attempts) :
        attempts[i].what \in {"from_documents", "embed_query"} => attempts[i].model # OpenAIModel

\* C11: once the provider tag is local it stays local, and neither the index
\* rebuild of a later add nor the query embedding of a later RAG ask uses the
\* remote embeddings.
C11_ProviderSticky ==
    [][embedding_type = "local" =>
          /\ embedding_type' = "local"
          /\ \A text \in Texts, filename \in Filenames, env \in AddEnvs(BuildErrors) :
                (call'.op = "add_document" /\ AddDocumentStep(text, filename, env))
                => NoRemoteAttempt(AddAttempts(text, filename, env))
          /\ \A question \in Questions, session_id \in KnownIds \cup {NoSessionId} :
             \A env \in AskEnvs(Truthy(vector_store), HasHistory(session_id), ErrorTexts) :
                (/\ call'.op = "ask"
                 /\ \E docs \in AskDocs(env) : AskStep(question, session_id, env, docs))
                => NoRemoteAttempt(AskAttempts(Sess(sessions, uuid_next), vector_store,
                                               session_id, env))]_vars

\* the index builds among the attempts
BuildAttempts(attempts) == SelectSeq(attempts, LAMBDA a : a.what = "from_documents")

\* an add of new text that reaches the rebuild with chunks to index, and whose
\* first index build fails with a quota signature
C12_QuotaFailure(text, env) ==
    /\ Md5(text) \notin DOMAIN document_sources
    /\ env.split.ok
    /\ documents \o split_text(text) # <<>>
    /\ ~env.build1.ok
    /\ QuotaSignature(env.build1.error)

\* what the claim says of such an add: the provider is local afterwards, the index
\* was built twice, the second time with a local model, and a retry that succeeds
\* makes the add succeed with an index over all chunks
C12_SwitchAndRetryOnce(text, filename, env) ==
    LET builds == BuildAttempts(AddAttempts(text, filename, env)) IN
    /\ embedding_type' = "local"
    /\ embeddings' \in {MultilingualModel, BasicModel}
    /\ Len(builds) = 2
    /\ builds[2].model = embeddings'
    /\ env.build2.ok
            => /\ result'.success
               /\ vector_store' = FAISS(documents', embeddings')
               /\ Len(documents') = Len(documents) + Len(split_text(text))

\* C12 as stated: every rebuild that fails with a quota signature switches the
\* provider to local and retries the build exactly once.
C12_AlwaysSwitchAndRetry ==
    [][\A text \in Texts, filename \in Filenames, env \in AddEnvs(BuildErrors) :
          (/\ call'.op = "add_document"
           /\ C12_QuotaFailure(text, env)
           /\ AddDocumentStep(text, filename, env))
          => C12_SwitchAndRetryOnce(text, filename, env)]_vars

\* C12, amended: the switch and the single retry happen when a local model can be
\* loaded; when neither local model loads, the add fails with the load error after
\* the one build attempt and the provider is unchanged.
C12_SwitchAndRetryWhenLocalLoads ==
    [][\A text \in Texts, filename \in Filenames, env \in AddEnvs(BuildErrors) :
          (/\ call'.op = "add_document"
           /\ C12_QuotaFailure(text, env)
           /\ AddDocumentStep(text, filename, env))
          => IF env.load_multi.ok \/ env.load_basic.ok
             THEN C12_SwitchAndRetryOnce(text, filename, env)
             ELSE /\ Len(BuildAttempts(AddAttempts(text, filename, env))) = 1
                  /\ UNCHANGED <<embeddings, embedding_type, vector_store>>
                  /\ result' = [success |-> FALSE,
                                message |-> Fmt("Error processing document: {}",
                                                env.load_basic.error)]]_vars

\* an add succeeded on its second build, made with a local model after the build
\* with the OpenAI embeddings failed
C12_Witness ==
    /\ call.op = "add_document" /\ result.success
    /\ Len(BuildAttempts(call.attempts)) = 2
    /\ call.attempts[1].model = OpenAIModel /\ ~call.attempts[1].outcome.ok
    /\ embedding_type = "local"
    /\ vector_store = FAISS(documents, embeddings)
    /\ Len(documents) >= 2

\* C13: the provider tag goes from openai to local only in an add whose first index
\* build failed with a quota signature; a build or query embedding that fails
\* without the signature fails its operation with that error, is not tried again
\* and leaves the provider as it was.
C13_SwitchOnlyOnQuota ==
    [][/\ (embedding_type = "openai" /\ embedding_type' # "openai")
            => /\ call'.op = "add_document"
               /\ call'.attempts # <<>>
               /\ ~call'.attempts[1].outcome.ok
               /\ QuotaSignature(call'.attempts[1].outcome.error)
       /\ \A text \in Texts, filename \in Filenames, env \in AddEnvs(BuildErrors) :
            (/\ call'.op = "add_document"
             /\ Md5(text) \notin DOMAIN document_sources
             /\ env.split.ok
             /\ documents \o split_text(text) # <<>>
             /\ ~env.build1.ok /\ ~QuotaSignature(env.build1.error)
             /\ AddDocumentStep(text, filename, env))
            => /\ call'.attempts = <<Attempt("from_documents", embeddings, env.build1)>>
               /\ UNCHANGED <<embeddings, embedding_type, vector_store>>
               /\ result' = [success |-> FALSE,
                             message |-> Fmt("Error processing document: {}",
                                             env.build1.error)]
       /\ \A question \in Questions, session_id \in KnownIds \cup {NoSessionId} :
          \A env \in AskEnvs(Truthy(vector_store), HasHistory(session_id), ErrorTexts) :
            (/\ call'.op = "ask"
             /\ ~env.embed_query.ok /\ ~QuotaSignature(env.embed_query.error)
             /\ AskStep(question, session_id, env, <<>>))
            => /\ Len(AskAttempts(Sess(sessions, uuid_next), vector_store,
                                   session_id, env)) = 1
               /\ UNCHANGED <<embeddings, embedding_type, vector_store>>
               /\ result' = GenericAnswer(env.embed_query.error)]_vars

\* an add failed on its only index build, made with the OpenAI embeddings, which
\* raised an error without the signature; the provider is still openai
C13_Witness ==
    /\ call.op = "add_document" /\ ~result.success
    /\ call.attempts = <<Attempt("from_documents", OpenAIModel, Fail(E_timeout))>>
    /\ embedding_type = "openai" /\ embeddings = OpenAIModel
    /\ Truthy(vector_store)

\* C14: a RAG ask whose query embedding fails with a quota signature while the
\* provider is openai switches the provider to local and embeds the query once
\* more with the fallback.
C14_QueryEmbeddingFallback ==
    [][\A question \in Questions, session_id \in KnownIds \cup {NoSessionId} :
       \A env \in AskEnvs(Truthy(vector_store), HasHistory(session_id), ErrorTexts) :
          (/\ call'.op = "ask"
           /\ embedding_type = "openai"
           /\ ~env.embed_query.ok /\ QuotaSignature(env.embed_query.error)
           /\ AskStep(question, session_id, env, <<>>))
          => LET attempts == AskAttempts(Sess(sessions, uuid_next), vector_store,
                                         session_id, env)
             IN /\ embedding_type' = "local"
                /\ Len(attempts) = 2
                /\ attempts[2].model \in {MultilingualModel, BasicModel}]_vars

\* C15: an add of empty or whitespace-only text returns a failure and records
\* neither metadata nor chunks.
C15_RejectsBlankText ==
    [][\A text \in Texts, filename \in Filenames, env \in AddEnvs(BuildErrors) :
          (/\ call'.op = "add_document"
           /\ Strip(text) = <<>>
           /\ AddDocumentStep(text, filename, env))
          => /\ ~result'.success
             /\ UNCHANGED <<documents, document_sources>>]_vars

\* the sum of the chunk counts that sources() reports per document
RECURSIVE C16_SumChunks(_, _)
C16_SumChunks(srcs, ids) ==
    IF ids = {} THEN 0
    ELSE LET id == CHOOSE x \in ids : TRUE
         IN srcs[id].chunks + C16_SumChunks(srcs, ids \ {id})

\* C16: an add that returns success reports at least one chunk and raises
\* total_chunks by the count it reports, and total_chunks is the sum of the
\* chunk counts of the documents of sources().
C16_ChunkAccounting ==
    [][/\ LET after == GetSources(document_sources', documents')
          IN after.total_chunks = C16_SumChunks(after.documents, DOMAIN after.documents)
       /\ (call'.op = "add_document" /\ result'.success)
            => /\ result'.chunks >= 1
               /\ GetSources(document_sources', documents').total_chunks
                    = GetSources(document_sources, documents).total_chunks
                        + result'.chunks]_vars

\* the messages a session holds, oldest first; none while it has no memory object
C17_Transcript(session) ==
    IF session.memory = None THEN <<>> ELSE session.memory.chat_memory.messages

\* C17: history for an id that no ask was given returns the not-found failure and
\* creates no session; for a known id it returns the session's messages in
\* transcript order with its message_count; neither changes the state.
C17_HistoryReadOnly ==
    [][\A session_id \in HistoryIds :
          (call'.op = "get_session_history" /\ get_session_history(session_id))
          => /\ UNCHANGED <<documents, vector_store, document_sources, sessions,
                            embeddings, embedding_type, uuid_next>>
             /\ session_id \notin DOMAIN sessions
                    => result' = [success |-> FALSE, message |-> Plain("Session not found")]
             /\ session_id \in DOMAIN sessions
                    => LET t == C17_Transcript(sessions[session_id]) IN
                       /\ result'.success
                       /\ result'.session_id = session_id
                       /\ result'.message_count = sessions[session_id].message_count
                       /\ Len(result'.messages) = Len(t)
                       /\ \A i \in 1..Len(t) :
                            /\ result'.messages[i].content = t[i].content
                            /\ result'.messages[i].type = "humanmessage"
                                    <=> t[i].type = "HumanMessage"
                            /\ result'.messages[i].type = "aimessage"
                                    <=> t[i].type = "AIMessage"]_vars

\* history of an unknown id was refused while another session holds two turns
C17_Witness ==
    /\ call.op = "get_session_history"
    /\ result = [success |-> FALSE, message |-> Plain("Session not found")]
    /\ "no-such-session" \notin DOMAIN sessions
    /\ \E sid \in DOMAIN sessions : Len(C17_Transcript(sessions[sid])) = 4

\* the turns counted for an id and its transcript; nothing for an id not in the table
C18_Count(table, sid) == IF sid \in DOMAIN table THEN table[sid].message_count ELSE 0

C18_Messages(table, sid) == IF sid \in DOMAIN table THEN C17_Transcript(table[sid]) ELSE <<>>

\* C18: the transcript of a session is a sequence of (human, AI) pairs, one per
\* successful ask and in call order, and message_count is the number of its
\* successful asks: a successful ask appends one pair, counts one more and returns
\* the new count, and a failed ask appends and counts nothing.
C18_TranscriptPairs ==
    [][/\ \A sid \in DOMAIN sessions' :
            LET t == C18_Messages(sessions', sid) IN
            /\ Len(t) = 2 * C18_Count(sessions', sid)
            /\ \A i \in 1..Len(t) :
                    t[i].type = IF i % 2 = 1 THEN "HumanMessage" ELSE "AIMessage"
       /\ (call'.op = "ask" /\ result'.success)
            => LET sid == result'.session_id
                   before == C18_Messages(sessions, sid)
                   after == C18_Messages(sessions', sid)
               IN /\ C18_Count(sessions', sid) = C18_Count(sessions, sid) + 1
                  /\ result'.message_count = C18_Count(sessions', sid)
                  /\ Len(after) = Len(before) + 2
                  /\ SubSeq(after, 1, Len(before)) = before
                  /\ after[Len(after)] = AIMessage(result'.answer)
       /\ (call'.op = "ask" /\ ~result'.success)
            => \A sid \in DOMAIN sessions' :
                    /\ C18_Count(sessions', sid) = C18_Count(sessions, sid)
                    /\ C18_Messages(sessions', sid) = C18_Messages(sessions, sid)]_vars

\* the second successful ask of a session returned count 2, while another session,
\* left by a failed ask, counts no turn
C18_Witness ==
    /\ call.op = "ask" /\ result.success /\ result.message_count = 2
    /\ Len(C18_Messages(sessions, result.session_id)) = 4
    /\ \E sid \in DOMAIN sessions : C18_Count(sessions, sid) = 0

\* C19: an ask with a caller's id that is not in the table adds exactly that
\* session, which starts at count 0 with no messages, uses it and returns the id;
\* an ask with an id in the table adds none and continues its record; an ask
\* without an id adds one session under an id that was not in the table.
C19_SessionResolution ==
    [][\A question \in Questions, session_id \in CallerIds \cup KnownIds \cup {NoSessionId} :
       \A env \in AskEnvs(Truthy(vector_store), HasHistory(session_id), ErrorTexts) :
          (/\ call'.op = "ask"
           /\ \E docs \in AskDocs(env) : AskStep(question, session_id, env, docs))
          => /\ (session_id # NoSessionId /\ session_id \notin DOMAIN sessions)
                    => /\ DOMAIN sessions' = DOMAIN sessions \cup {session_id}
                       /\ uuid_next' = uuid_next
                       /\ IF result'.success
                          THEN /\ result'.session_id = session_id
                               /\ result'.message_count = 1
                               /\ Len(C18_Messages(sessions', session_id)) = 2
                          ELSE /\ C18_Count(sessions', session_id) = 0
                               /\ C18_Messages(sessions', session_id) = <<>>
             /\ (session_id # NoSessionId /\ session_id \in DOMAIN sessions)
                    => /\ DOMAIN sessions' = DOMAIN sessions
                       /\ uuid_next' = uuid_next
                       /\ result'.success
                            => /\ result'.session_id = session_id
                               /\ result'.message_count
                                    = C18_Count(sessions, session_id) + 1
                               /\ SubSeq(C18_Messages(sessions', session_id), 1,
                                         Len(C18_Messages(sessions, session_id)))
                                    = C18_Messages(sessions, session_id)
             /\ session_id = NoSessionId
                    => \E sid \in DOMAIN sessions' :
                            /\ sid \notin DOMAIN sessions
                            /\ DOMAIN sessions' = DOMAIN sessions \cup {sid}
                            /\ C18_Count(sessions', sid) = (IF result'.success THEN 1 ELSE 0)
                            /\ result'.success => result'.session_id = sid]_vars

\* the caller's id was used for a second turn, next to a session made without an id
C19_Witness ==
    /\ call.op = "ask" /\ result.success
    /\ result.session_id = "s1" /\ result.message_count = 2
    /\ DOMAIN sessions = {"s1", Uuid4(1)}

\* the requests that have passed the duplicate check of their add and have not yet
\* published the rebuilt index
C20_InCriticalSection == {r \in Requests : requests[r].pc \in {"extend", "rebuild"}}

\* the chunks stored for the document with the given digest
C20_ChunksOf(doc_hash) ==
    SelectSeq(documents, LAMBDA d : d.metadata.document_id = doc_hash)

\* the add of the request ended in the except clause
C20_Errored(r) ==
    /\ ~requests[r].response.success
    /\ requests[r].response.message.template = "Error processing document: {}"

\* C20: at most one add is between its duplicate check and the publication of its
\* index; the chunks of every recorded document are stored once; and two uploads
\* of the same text are never both accepted: unless one of them ended in an error,
\* one is accepted and the other is refused as a duplicate.
C20_AddsSerialized ==
    /\ Cardinality(C20_InCriticalSection) <= 1
    /\ \A text \in Texts :
            Md5(text) \in DOMAIN document_sources
                => C20_ChunksOf(Md5(text))
                        = ChunkDocuments(split_text(text), "a.txt", Md5(text))
    /\ \A r1, r2 \in Requests :
            (/\ r1 # r2
             /\ requests[r1].pc = "done" /\ requests[r2].pc = "done"
             /\ requests[r1].text = requests[r2].text)
            => /\ ~(requests[r1].response.success /\ requests[r2].response.success)
               /\ (~C20_Errored(r1) /\ ~C20_Errored(r2))
                    => \/ requests[r1].response.success
                       \/ requests[r2].response.success

\* two uploads of the same text were in flight together: r2 arrived while r1 was
\* not answered yet; r2 was accepted, r1 refused as a duplicate, and the two chunks
\* of the text are stored once
C20_Witness ==
    /\ requests["r1"].pc = "done" /\ requests["r2"].pc = "done"
    /\ requests["r2"].overlaps
    /\ requests["r1"].text = T_ab_cd /\ requests["r2"].text = T_ab_cd
    /\ requests["r2"].response.success
    /\ requests["r1"].response.message = DuplicateMessage
    /\ Len(documents) = 2
    /\ vector_store = FAISS(documents, embeddings)

\* chunk list, metadata and index agree: the metadata counts the chunks held, and
\* the index, if any chunk is held, is the one over all of them
C21_Complete(docs, srcs, vs) ==
    /\ Len(docs) = C16_SumChunks(srcs, DOMAIN srcs)
    /\ docs # <<>> => (Truthy(vs) /\ vs.docs = docs)

\* C21: what a sources() snapshot or the retrieval of an ask sees while an upload
\* is in flight or over is a state in which chunk list, metadata and index have
\* all been updated or none has.
C21_ReadersSeeWholeIngestions ==
    [][/\ (call'.op = "get_sources" /\ SourcesRequest)
            => /\ C21_Complete(documents, document_sources, vector_store)
               /\ result'.total_chunks = Len(documents)
       /\ \A r \in Chatters :
            (requests[r].pc = "invoke" /\ requests[r].rag /\ requests'[r].pc # "invoke")
                => /\ requests[r].retriever = vector_store
                   /\ C21_Complete(documents, document_sources, requests[r].retriever)]_vars

\* the successful chats of the session that have been answered
C22_Answered(sid) ==
    {r \in Chatters : /\ requests[r].pc = "done"
                      /\ requests[r].response.success
                      /\ requests[r].response.session_id = sid}

\* the chats that stand between the shaping of the session's memory and their answer
C22_InTurn(sid) ==
    {r \in Chatters : requests[r].pc \in {"invoke", "count"} /\ requests[r].sid = sid}

\* C22: the asks of one session do not interleave: at most one of them is between
\* the shaping of the memory and its answer, and once they are answered the
\* transcript holds one (human, AI) pair per successful ask and message_count is
\* their number, each ask having returned its own count.
C22_SameSessionAsksSerialized ==
    \A sid \in DOMAIN sessions :
        /\ Cardinality(C22_InTurn(sid)) <= 1
        /\ C22_InTurn(sid) = {}
            => LET t == C18_Messages(sessions, sid)
                   n == Cardinality(C22_Answered(sid))
               IN /\ sessions[sid].message_count = n
                  /\ Len(t) = 2 * n
                  /\ \A i \in 1..Len(t) :
                        t[i].type = IF i % 2 = 1 THEN "HumanMessage" ELSE "AIMessage"
                  /\ {requests[r].response.message_count : r \in C22_Answered(sid)} = 1..n

\* two asks of the session s1 were in flight together and both are answered: the
\* session counts two turns and holds both pairs
C22_Witness ==
    /\ C22_Answered("s1") = {"r1", "r2"}
    /\ requests["r2"].overlaps
    /\ sessions["s1"].message_count = 2
    /\ Len(C18_Messages(sessions, "s1")) = 4

\* request a waits for the provider: its model call or its index build is under way
C23_Waiting(a) == requests[a].pc \in {"invoke", "rebuild"}

\* C23: while a request waits for the provider, an ask of another session that
\* has arrived can start.
C23_SlowCallDoesNotStall ==
    \A a \in Requests, b \in Chatters :
        (/\ a # b
         /\ C23_Waiting(a)
         /\ requests[b].pc = "arrived"
         /\ requests[a].pc = "invoke" => requests[a].sid # requests[b].session_id)
        => ENABLED ChatStart(b)

\* the entries of s in order, each kept where it occurs first
C24_FirstOccurrences(s) ==
    LET F[n \in 0..Len(s)] ==
            IF n = 0 THEN <<>>
            ELSE IF \E j \in 1..(n - 1) : s[j] = s[n] THEN F[n - 1]
            ELSE Append(F[n - 1], s[n])
    IN F[Len(s)]

C25_HebrewWords == {H_hakovetz, H_hamismach, H_hatext, H_hameida}

C25_HebrewPhrases == {H_tasbir_al_hakovetz, H_ten_li_sikum, H_ma_yesh_bamismach}

C25_EnglishWords == {S_the_file, S_the_document, S_this_document}

C25_EnglishPhrases == {S_explain_in_english, S_summarize_this, S_whats_in_this}

\* the question holds a document-referring phrase of the list, wherever in it
C25_HoldsPhrase(q) ==
    \/ \E p \in C25_HebrewWords \cup C25_HebrewPhrases : Contains(q, p)
    \/ \E p \in C25_EnglishWords \cup C25_EnglishPhrases : Contains(Lower(q), p)

C25_Anchored(q, e) == e = H_prefix \o q \/ e = S_prefix \o q

\* C25 as stated: the query is the question behind an anchor exactly when the
\* question holds a phrase of the list, the question itself otherwise, and the
\* question is always part of the query.
C25_AnchoredByPhrase ==
    call.op = "enhance" =>
        /\ C25_HoldsPhrase(call.question) => C25_Anchored(call.question, result)
        /\ ~C25_HoldsPhrase(call.question) => result = call.question
        /\ Contains(result, call.question)

\* the question asks for an explanation in Hebrew, or in at most three words, and
\* names none of the four Hebrew document words
C25_Replaced(q) ==
    /\ \A p \in C25_HebrewWords : ~Contains(q, p)
    /\ Contains(q, H_tasbir)
    /\ Contains(q, H_beivrit) \/ Len(SplitWords(q)) <= 3

\* the question refers to the document: it holds one of the words, or is one of
\* the phrases once the blanks around it are dropped (the English ones in any case)
C25_Refers(q) ==
    \/ \E p \in C25_HebrewWords : Contains(q, p)
    \/ Strip(q) \in C25_HebrewPhrases
    \/ \E p \in C25_EnglishWords : Contains(Lower(q), p)
    \/ Strip(Lower(q)) \in C25_EnglishPhrases

\* C25, amended: a question that asks for an explanation is replaced by the fixed
\* Hebrew sentence; any other question is sent behind an anchor exactly when it
\* refers to the document, unchanged otherwise, and is then part of the query.
C25_AnchoredUnlessReplaced ==
    call.op = "enhance" =>
        LET q == call.question IN
        /\ C25_Replaced(q) => result = H_explain
        /\ (~C25_Replaced(q) /\ C25_Refers(q)) => C25_Anchored(q, result)
        /\ (~C25_Replaced(q) /\ ~C25_Refers(q)) => result = q
        /\ ~C25_Replaced(q) => Contains(result, q)

\* a question asking for an explanation in Hebrew was replaced by the fixed
\* sentence, which does not hold it
C25_Witness ==
    /\ call.op = "enhance"
    /\ C25_Replaced(call.question)
    /\ Contains(call.question, H_beivrit)
    /\ result = H_explain
    /\ ~Contains(result, call.question)

\* the state of the service: corpus, index, provider and sessions
C26_Service ==
    <<documents, vector_store, document_sources, embeddings, embedding_type, sessions,
      uuid_next>>

C26_EndsWith(s, suffix) ==
    Len(suffix) <= Len(s) /\ SubSeq(s, Len(s) - Len(suffix) + 1, Len(s)) = suffix

\* the request the step answers is of a kind the transport turns away: a chat
\* message with nothing but whitespace, or a file whose name ends in none of the
\* allowed extensions, that is larger than the limit, or that is to be read as
\* text and is not UTF-8
C26_ToReject(c) ==
    \/ /\ c.op = "chat_endpoint"
       /\ \A i \in 1..Len(c.input.message) : c.input.message[i] \in WhitespaceChars
    \/ /\ c.op = "upload_document"
       /\ \/ \A ext \in allowed_types : ~C26_EndsWith(Lower(c.input.filename), ext)
          \/ Len(c.input.content) > max_file_size
          \/ /\ ~C26_EndsWith(Lower(c.input.filename), <<".", "p", "d", "f">>)
             /\ \E i \in 1..Len(c.input.content) : c.input.content[i] = BadByte

\* C26: a request of a kind the transport turns away is answered with an HTTP
\* error without a call of ask or add_document, and leaves corpus, index, provider
\* and sessions as they were.
C26_RejectedBeforeService ==
    [][(call'.op \in {"chat_endpoint", "upload_document"} /\ C26_ToReject(call'))
        => /\ ~call'.invoked
           /\ result'.status_code \in {400, 413}
           /\ C26_Service' = C26_Service]_vars

\* a request was turned away, and a question asked after it about an uploaded
\* file is answered from that file
C26_Witness ==
    /\ call.op = "chat_endpoint"
    /\ call.rejected
    /\ call.invoked
    /\ result.success
    /\ result.sources # <<>>

\* the text is the chunks put one after the other, each without some head that
\* repeats the tail of the chunk before it
RECURSIVE C27_Rebuilds(_, _, _)
C27_Rebuilds(chunks, prev, text) ==
    IF chunks = <<>> THEN text = <<>>
    ELSE LET c == Head(chunks) IN
         \E o \in 0..Min(Len(prev), Len(c)) :
            /\ SubSeq(prev, Len(prev) - o + 1, Len(prev)) = SubSeq(c, 1, o)
            /\ StartsWith(text, Drop(c, o))
            /\ C27_Rebuilds(Tail(chunks), c, Drop(text, Len(c) - o))

RECURSIVE C27_Placed(_, _, _, _)
C27_Placed(chunks, text, start, end) ==
    IF chunks = <<>> THEN \A i \in (end + 1)..Len(text) : text[i] \in WhitespaceChars
    ELSE LET c == Head(chunks) IN
         \E p \in start..(Len(text) - Len(c) + 1) :
            /\ SubSeq(text, p, p + Len(c) - 1) = c
            /\ \A i \in (end + 1)..(p - 1) : text[i] \in WhitespaceChars
            /\ p + Len(c) - 1 >= end
            /\ C27_Placed(Tail(chunks), text, p, p + Len(c) - 1)

C28_HasShape(memory, rag) ==
    /\ memory # None
    /\ memory.memory_key = (IF rag THEN "chat_history" ELSE "history")
    /\ memory.output_key = (IF rag THEN "answer" ELSE "None")

\* C28: an ask on a session whose memory has the shape of the current mode builds
\* no new memory object, and the memory it goes on with is the one the session had.
C28_ShapeCheckIdempotent ==
    [][call'.op = "ask" =>
       \A question \in Questions, session_id \in KnownIds :
       \A env \in AskEnvs(Truthy(vector_store), HasHistory(session_id), ErrorTexts) :
          (\E docs \in AskDocs(env) : AskStep(question, session_id, env, docs))
          => LET memory == sessions[session_id].memory
                 rag == Truthy(vector_store)
             IN C28_HasShape(memory, rag)
                => /\ ~ConstructsMemory(memory, rag)
                   /\ (IF rag THEN RagMemory(memory) ELSE DirectMemory(memory)) = memory]_vars

\* the human messages that history returns for the session, oldest first
C29_HumanMessages(table, sid) ==
    SelectSeq(GetSessionHistory(table, sid).messages, LAMBDA m : m.type = "humanmessage")

\* C29: after a successful ask(q, s), the last human message that history(s)
\* returns has the content q.
C29_TranscriptKeepsQuestion ==
    [][(call'.op = "ask" /\ result'.success) =>
       \A question \in Questions, session_id \in KnownIds \cup {NoSessionId} :
       \A env \in AskEnvs(Truthy(vector_store), HasHistory(session_id), ErrorTexts) :
          (\E docs \in AskDocs(env) : AskStep(question, session_id, env, docs))
          => LET humans == C29_HumanMessages(sessions', result'.session_id) IN
             /\ humans # <<>>
             /\ humans[Len(humans)].content = question]_vars

\* C30: the transcript handed to the model at an ask, in either mode and after a
\* change of mode, is the end of the session's transcript and holds at most the
\* last 5 turns, 10 messages.
C30_WindowBounded ==
    [][call'.op = "ask" =>
       \A question \in Questions, session_id \in CallerIds :
       \A env \in AskEnvs(Truthy(vector_store), HasHistory(session_id), {E_timeout}) :
          (\E docs \in AskDocs(env) : AskStep(question, session_id, env, docs))
          => LET context == AskContext(Sess(sessions, uuid_next), vector_store, session_id)
                 t == C18_Messages(sessions, session_id)
             IN /\ Len(context) <= 10
                /\ Len(context) = Min(Len(t), 10)
                /\ context = SubSeq(t, Len(t) - Len(context) + 1, Len(t))]_vars

\* the seventh turn of s1 was answered in RAG mode after six turns in direct
\* mode: its memory was rebuilt for the new mode from a transcript of 12 messages
C30_Witness ==
    /\ call.op = "ask"
    /\ result.success
    /\ result.mode = "rag_chat"
    /\ result.message_count = 7
    /\ Len(C18_Messages(sessions, "s1")) = 14
    /\ C18_Messages(sessions, "s1")[11].content = Q_file
    /\ C18_Messages(sessions, "s1")[13].content # Q_file

\* C31: a text whose digest is recorded is rejected as a duplicate under whatever
\* file name it comes, and the record keeps the name it had; a text whose digest
\* is not recorded is not taken for a duplicate, whatever documents carry its
\* file name, and once accepted is recorded next to them under its own digest.
C31_IdentityIsContentHash ==
    [][call'.op = "add_document" =>
       LET h == Md5(call'.text) IN
       /\ h \in DOMAIN document_sources
            => /\ result' = [success |-> FALSE, message |-> DuplicateMessage,
                             document_id |-> h]
               /\ document_sources' = document_sources
               /\ documents' = documents
       /\ h \notin DOMAIN document_sources
            => /\ result'.message # DuplicateMessage
               /\ result'.success
                    => /\ DOMAIN document_sources' = DOMAIN document_sources \cup {h}
                       /\ document_sources'[h].filename = call'.filename
                       /\ \A g \in DOMAIN document_sources :
                            document_sources'[g] = document_sources[g]]_vars

\* two texts are recorded as two documents under the name a.txt, and one of them,
\* sent again as b.txt, was rejected as a duplicate
C31_Witness ==
    /\ call.op = "add_document"
    /\ call.filename = "b.txt"
    /\ result.success = FALSE
    /\ result.message = DuplicateMessage
    /\ Cardinality(DOMAIN document_sources) = 2
    /\ \A h \in DOMAIN document_sources : document_sources[h].filename = "a.txt"

\* C32: no step removes or changes a chunk or a document record: the chunk list
\* of a state is the head of the chunk list of the next, and every record of a
\* document is in the next state as it was.
C32_CorpusOnlyGrows ==
    [][/\ Len(documents) <= Len(documents')
       /\ SubSeq(documents', 1, Len(documents)) = documents
       /\ \A h \in DOMAIN document_sources :
            /\ h \in DOMAIN document_sources'
            /\ document_sources'[h] = document_sources[h]]_vars

\* a second document was added after the first: three chunks, the first of them
\* the chunk of the first document, and both records held
C32_Witness ==
    /\ call.op = "add_document"
    /\ result.success
    /\ result.chunks = 2
    /\ Len(documents) = 3
    /\ documents[1].metadata.document_id = Md5(T_ab)
    /\ DOMAIN document_sources = {Md5(T_ab), Md5(T_ab_cd)}

\* the chunks of the document h, in the order of the chunk list
C33_ChunksOf(h) == SelectSeq(documents, LAMBDA d : d.metadata.document_id = h)

\* C33: every chunk names a recorded document, and the chunks of a recorded
\* document are as many as its record says, numbered 0, 1, ... in the order in
\* which the chunker gave them.
C33_ChunksBelongAndAreNumbered ==
    /\ \A i \in 1..Len(documents) : documents[i].metadata.document_id \in DOMAIN document_sources
    /\ \A h \in DOMAIN document_sources :
         LET cs == C33_ChunksOf(h) IN
         /\ Len(cs) = document_sources[h].chunks
         /\ \A i \in 1..Len(cs) : cs[i].metadata.chunk_id = i - 1
         /\ \A text \in Texts :
                Md5(text) = h
                    => [i \in 1..Len(cs) |-> cs[i].page_content] = split_text(text)

\* two documents are recorded, one of one chunk and one of two, the chunks of the
\* second numbered 0 and 1
C33_Witness ==
    /\ DOMAIN document_sources = {Md5(T_ab), Md5(T_ab_cd)}
    /\ Len(C33_ChunksOf(Md5(T_ab))) = 1
    /\ Len(C33_ChunksOf(Md5(T_ab_cd))) = 2
    /\ C33_ChunksOf(Md5(T_ab_cd))[2].metadata.chunk_id = 1

\* C34: no step takes a published index away; a successful ask answers in RAG
\* mode exactly when an index is published, so that no direct answer follows a
\* RAG answer; and an ask in direct mode never meets a memory of the RAG shape.
C34_ModeMonotone ==
    [][/\ Truthy(vector_store) => Truthy(vector_store')
       /\ (call'.op = "ask" /\ result'.success)
            => (result'.mode = "rag_chat" <=> Truthy(vector_store))
       /\ (call'.op = "ask" /\ ~Truthy(vector_store))
            => \A sid \in DOMAIN sessions :
                    \/ sessions[sid].memory = None
                    \/ sessions[sid].memory.output_key # "answer"]_vars

\* an ask was answered in RAG mode from the index of the first document, after
\* the add of a second document had failed and left that index in place
C34_Witness ==
    /\ call.op = "ask"
    /\ result.success
    /\ result.mode = "rag_chat"
    /\ Truthy(vector_store)
    /\ Len(vector_store.docs) < Len(documents)

\* C35: an ask that returns a failure leaves the count and the transcript of
\* every session, the one it addressed included, as they were, and a successful
\* ask returns the count the session had, plus one.
C35_FailedAskRecordsNothing ==
    [][call'.op = "ask" =>
       /\ ~result'.success
            => \A sid \in DOMAIN sessions \cup DOMAIN sessions' :
                    /\ C18_Count(sessions', sid) = C18_Count(sessions, sid)
                    /\ C18_Messages(sessions', sid) = C18_Messages(sessions, sid)
       /\ result'.success
            => result'.message_count = C18_Count(sessions, result'.session_id) + 1]_vars

\* the only session there is has one turn, and the ask that came after that turn
\* failed: the turn and the count of one are still there
C35_Witness ==
    /\ call.op = "ask"
    /\ ~result.success
    /\ uuid_next = 1
    /\ DOMAIN sessions = {Uuid4(1)}
    /\ C18_Count(sessions, Uuid4(1)) = 1
    /\ Len(C18_Messages(sessions, Uuid4(1))) = 2

\* C36: a failed ask without a session id, or with one that the table does not
\* hold, adds one session to the table, under the id given if one was given, with
\* the count 0 and no messages; its result names no session, and neither does the
\* response of the chat endpoint made from it.
C36_FailedAskLeavesSession ==
    [][(call'.op = "ask" /\ ~result'.success) =>
       \A question \in Questions, session_id \in CallerIds \cup KnownIds \cup {NoSessionId} :
       \A env \in AskEnvs(Truthy(vector_store), HasHistory(session_id), ErrorTexts) :
          (/\ session_id = NoSessionId \/ session_id \notin DOMAIN sessions
           /\ \E docs \in AskDocs(env) : AskStep(question, session_id, env, docs))
          => /\ \E sid \in DOMAIN sessions' \ DOMAIN sessions :
                    /\ DOMAIN sessions' = DOMAIN sessions \cup {sid}
                    /\ session_id # NoSessionId => sid = session_id
                    /\ sessions'[sid].message_count = 0
                    /\ C18_Messages(sessions', sid) = <<>>
             /\ "session_id" \notin DOMAIN result'
             /\ ChatResponse(result').session_id = None]_vars

\* the ask of a caller with the id s1, which the table did not hold, failed: s1
\* is in the table with no turn, and the result does not name it
C36_Witness ==
    /\ call.op = "ask"
    /\ ~result.success
    /\ "session_id" \notin DOMAIN result
    /\ DOMAIN sessions = {"s1"}
    /\ sessions["s1"].message_count = 0
    /\ C18_Messages(sessions, "s1") = <<>>

\* C37: an ask, answered or failed, in direct or in RAG mode, leaves the chunk
\* list, the document records, the index and the provider as they were.
C37_AskLeavesCorpus ==
    [][call'.op = "ask" =>
       /\ documents' = documents
       /\ document_sources' = document_sources
       /\ vector_store' = vector_store
       /\ embedding_type' = embedding_type
       /\ embeddings' = embeddings]_vars

\* an ask in RAG mode failed while the service embeds with the remote provider,
\* and the service still does
C37_Witness ==
    /\ call.op = "ask"
    /\ ~result.success
    /\ Truthy(vector_store)
    /\ vector_store.docs = documents
    /\ embedding_type = "openai"
    /\ embeddings = OpenAIModel

====
